---- MODULE Spec2Model ----
(***************************************************************************)
(* Model of the metric-evaluation and aggregation engine of the registry   *)
(* (CSCI461/src/registry): score_model, _compute_net_score, the eight      *)
(* metric classes and parse_url.                                           *)
(*                                                                         *)
(* Scores are integers in thousandths (1000 stands for 1.0).  The net      *)
(* score is a numerator over NetDen so that the weighted sum and the mean  *)
(* of the size tiers are exact.  Byte counts are in MiB.                   *)
(***************************************************************************)
EXTENDS Integers, Sequences, FiniteSets, TLC

VARIABLES pc, url, registry, idx, metric_results, returned, evalCount,
          aggSeen, net_score, net_latency, record,
          mcur, mprev,
          nmr, nres,
          model_score, ndjson, line,
          repo_info, calls,
          urls, context, results, visited,
          _artifacts_by_id, _artifact_id_by_type_and_url, response,
          ordered, listing

vars == <<pc, url, registry, idx, metric_results, returned, evalCount,
          aggSeen, net_score, net_latency, record, mcur, mprev, nmr, nres,
          model_score, ndjson, line, repo_info, calls,
          urls, context, results, visited,
          _artifacts_by_id, _artifact_id_by_type_and_url, response,
          ordered, listing>>

sessionVars == <<pc, url, registry, idx, metric_results, returned, evalCount,
                 aggSeen, net_score, net_latency, record>>
metricVars == <<mcur, mprev>>
netVars == <<nmr, nres>>
recordVars == <<model_score, ndjson, line>>
pureVars == <<repo_info, calls>>
listVars == <<urls, context, results, visited>>
apiVars == <<_artifacts_by_id, _artifact_id_by_type_and_url, response>>
pageVars == <<ordered, listing>>

(***************************************************************************)
(* Bounds                                                                   *)
(***************************************************************************)
MaxLatency == 2
MaxContrib == 7

(***************************************************************************)
(* Python values.  One record shape for every value: t is the type tag, n  *)
(* the number (thousandths for scores, plain for counts, word count for a  *)
(* text), d the content of a text (its keywords) or of a dict (its items). *)
(***************************************************************************)
Absent == [t |-> "absent", n |-> 0, d |-> <<>>]
PyNone == [t |-> "none", n |-> 0, d |-> <<>>]
Num(x) == [t |-> "num", n |-> x, d |-> <<>>]
PyInt(x) == [t |-> "int", n |-> x, d |-> <<>>]
PyBool(b) == [t |-> "bool", n |-> IF b THEN 1 ELSE 0, d |-> <<>>]
PyStr(words, count) == [t |-> "str", n |-> count, d |-> words]
PyDict(items) == [t |-> "dict", n |-> 0, d |-> items]
Item(k, v) == [k |-> k, v |-> v, num |-> TRUE]
BadItem(k) == [k |-> k, v |-> 0, num |-> FALSE]

EmptyStr == PyStr(<<>>, 0)
EmptyDict == PyDict(<<>>)

\* dict.get(key, default) on a mapping that marks a missing key as Absent
Get(m, key, default) == IF m[key].t = "absent" THEN default ELSE m[key]

\* bool(x)
Truthy(x) ==
    CASE x.t = "absent" -> FALSE
      [] x.t = "none" -> FALSE
      [] x.t = "num" -> x.n # 0
      [] x.t = "int" -> x.n # 0
      [] x.t = "bool" -> x.n # 0
      [] x.t = "str" -> x.n > 0
      [] x.t = "dict" -> Len(x.d) > 0

\* float(x) and int(x) are defined for floats, ints and booleans; they raise
\* TypeError for None and a dict, ValueError for a non-numeric string
IsNumeric(x) == x.t \in {"num", "int", "bool"}
\* float(x) in thousandths
FloatOf(x) == IF x.t = "num" THEN x.n ELSE 1000 * x.n
\* int(x): truncation toward zero for a float
IntOf(x) ==
    IF x.t = "num"
    THEN (IF x.n >= 0 THEN x.n \div 1000 ELSE -((-x.n) \div 1000))
    ELSE x.n

Tiers == {"raspberry_pi", "jetson_nano", "desktop_pc", "aws_server"}
TierOrder == <<"raspberry_pi", "jetson_nano", "desktop_pc", "aws_server">>

KeySet(dv) == {dv.d[i].k : i \in 1..Len(dv.d)}

RECURSIVE SumItems(_, _)
SumItems(items, i) ==
    IF i > Len(items) THEN 0 ELSE items[i].v + SumItems(items, i + 1)

AllNum(items) == \A i \in 1..Len(items) : items[i].num

(***************************************************************************)
(* URLs are sequences of tokens ("https://", a host, "/", a path segment). *)
(* A substring test of the code is a test on adjacent tokens.              *)
(***************************************************************************)
ModelUrl == <<"https://", "huggingface.co", "/", "org", "/", "model">>
BareHostUrl == <<"https://", "huggingface.co">>
DatasetUrl == <<"https://", "huggingface.co", "/", "datasets", "/", "squad">>
CodeUrl == <<"https://", "github.com", "/", "org", "/", "repo">>
OtherUrl == <<"https://", "example.org", "/", "x">>
Urls == {ModelUrl, BareHostUrl, DatasetUrl, CodeUrl, OtherUrl}

\* "tok" in s
HasTok(s, tok) == \E i \in 1..Len(s) : s[i] = tok
\* index of the first token after the first occurrence of host followed by "/"
\* (0 when "<host>/" does not occur): s.split("<host>/", 1)[1] starts there
AfterHostSlash(s, host) ==
    LET hits == {i \in 1..(Len(s) - 1) : s[i] = host /\ s[i + 1] = "/"}
    IN IF hits = {} THEN 0
       ELSE (CHOOSE i \in hits : \A j \in hits : i <= j) + 2
\* index after the first "/datasets/" (0 when absent)
AfterDatasets(s) ==
    LET hits == {i \in 1..(Len(s) - 2) :
                    s[i] = "/" /\ s[i + 1] = "datasets" /\ s[i + 2] = "/"}
    IN IF hits = {} THEN 0
       ELSE (CHOOSE i \in hits : \A j \in hits : i <= j) + 3
\* [p for p in tail.split("/") if p]
Parts(s, from) == SelectSeq(SubSeq(s, from, Len(s)), LAMBDA t : t # "/")
\* "/".join(parts[:2]) if len(parts) >= 2 else (parts[0] if parts else s)
OwnerRepo(s, parts) ==
    IF Len(parts) >= 2 THEN <<parts[1], "/", parts[2]>>
    ELSE IF Len(parts) = 1 THEN <<parts[1]>> ELSE s

ParsedURL(raw, category, name) ==
    [raised |-> FALSE, raw |-> raw, category |-> category, name |-> name]
IndexError == [raised |-> TRUE, raw |-> <<>>, category |-> "UNKNOWN", name |-> <<>>]

parse_url(s) ==
    IF HasTok(s, "huggingface.co")
    THEN IF AfterDatasets(s) # 0
         THEN ParsedURL(s, "DATASET",
                        IF AfterDatasets(s) <= Len(s)
                        THEN <<s[AfterDatasets(s)]>> ELSE <<>>)
         ELSE IF AfterHostSlash(s, "huggingface.co") = 0
              THEN IndexError
              ELSE ParsedURL(s, "MODEL",
                     OwnerRepo(s, Parts(s, AfterHostSlash(s, "huggingface.co"))))
    ELSE IF HasTok(s, "github.com")
    THEN IF AfterHostSlash(s, "github.com") = 0
         THEN IndexError
         ELSE ParsedURL(s, "CODE",
                OwnerRepo(s, Parts(s, AfterHostSlash(s, "github.com"))))
    ELSE ParsedURL(s, "UNKNOWN", s)

(***************************************************************************)
(* The metric registry of score_model and the keys of metric_results.      *)
(***************************************************************************)
MetricOrder == <<"ramp_up_time", "bus_factor", "performance_claims", "license",
                 "size_score", "dataset_and_code_score", "dataset_quality",
                 "code_quality">>
MetricNames == {MetricOrder[i] : i \in 1..Len(MetricOrder)}
ScalarNames == MetricNames \ {"size_score"}

LatencyKey(m) ==
    CASE m = "ramp_up_time" -> "ramp_up_time_latency"
      [] m = "bus_factor" -> "bus_factor_latency"
      [] m = "performance_claims" -> "performance_claims_latency"
      [] m = "license" -> "license_latency"
      [] m = "size_score" -> "size_score_latency"
      [] m = "dataset_and_code_score" -> "dataset_and_code_score_latency"
      [] m = "dataset_quality" -> "dataset_quality_latency"
      [] m = "code_quality" -> "code_quality_latency"
LatencyKeys == {LatencyKey(m) : m \in MetricNames}
ResultKeys == MetricNames \cup LatencyKeys

EmptyResults == [k \in ResultKeys |-> Absent]

\* The classes score_model instantiates.  BaseMetricClasses: the classes of
\* registry/metrics as they stand (only DatasetQualityMetric sets `name`).
\* ProtocolClasses: classes that satisfy the Metric protocol scorer.py imports.
BaseMetricClasses == {"dataset_quality"}
ProtocolClasses == MetricNames
Registries == {ProtocolClasses, BaseMetricClasses}

(***************************************************************************)
(* _compute_net_score                                                      *)
(***************************************************************************)
\* the weights dict, in hundredths, in its insertion order
WeightOrder == <<"ramp_up_time", "license", "dataset_and_code_score",
                 "size_score", "bus_factor", "dataset_quality", "code_quality",
                 "performance_claims">>
\* faulty variant: the alternate weight vector (0.15/0.15/0.15/0.10/0.10/0.10/0.10/0.15)
weightsAlternate(k) ==
    CASE k = "ramp_up_time" -> 15
      [] k = "license" -> 15
      [] k = "dataset_and_code_score" -> 15
      [] k = "size_score" -> 10
      [] k = "bus_factor" -> 10
      [] k = "dataset_quality" -> 10
      [] k = "code_quality" -> 10
      [] k = "performance_claims" -> 15

weights(k) ==
    CASE k = "ramp_up_time" -> 20
      [] k = "license" -> 20
      [] k = "dataset_and_code_score" -> 15
      [] k = "size_score" -> 10
      [] k = "bus_factor" -> 10
      [] k = "dataset_quality" -> 10
      [] k = "code_quality" -> 10
      [] k = "performance_claims" -> 5

\* a metric value is carried in units of 1/(12 * 1000), the net score in units
\* of 1/NetDen
NetDen == 100 * 12 * 1000

Value(v) == [ok |-> TRUE, v |-> v]
Raises == [ok |-> FALSE, v |-> 0]

\* faulty variant: a missing size mapping counts as 0.0, like a missing scalar
get_metric_value_zero_default(mr, key) ==
    IF key = "size_score"
    THEN LET size_dict == Get(mr, "size_score", EmptyDict)
         IN IF size_dict.t = "dict" /\ Len(size_dict.d) > 0
            THEN IF AllNum(size_dict.d)
                 THEN Value((12 * SumItems(size_dict.d, 1)) \div Len(size_dict.d))
                 ELSE Raises
            ELSE Value(0)
    ELSE LET x == Get(mr, key, Num(0))
         IN IF IsNumeric(x) THEN Value(12 * FloatOf(x)) ELSE Raises

get_metric_value(mr, key) ==
    IF key = "size_score"
    THEN LET size_dict == Get(mr, "size_score", EmptyDict)
         IN IF size_dict.t = "dict" /\ Len(size_dict.d) > 0
            THEN IF AllNum(size_dict.d)
                 THEN Value((12 * SumItems(size_dict.d, 1)) \div Len(size_dict.d))
                 ELSE Raises
            ELSE Value(12 * 1000)
    ELSE LET x == Get(mr, key, Num(0))
         IN IF IsNumeric(x) THEN Value(12 * FloatOf(x)) ELSE Raises

RECURSIVE WeightedSum(_, _)
WeightedSum(mr, i) ==
    IF i > Len(WeightOrder) THEN 0
    ELSE weights(WeightOrder[i]) * get_metric_value(mr, WeightOrder[i]).v
         + WeightedSum(mr, i + 1)

Min(a, b) == IF a <= b THEN a ELSE b
Max(a, b) == IF a >= b THEN a ELSE b

\* faulty variant: only the upper clamp, min(1.0, net_score)
ClampNetUpperOnly(x) == Min(NetDen, x)

\* max(0.0, min(1.0, net_score))
ClampNet(x) == Max(0, Min(NetDen, x))

\* TRUE when the body of the try block raises
NetRaises(mr) ==
    \E i \in 1..Len(WeightOrder) : ~get_metric_value(mr, WeightOrder[i]).ok

\* faulty variant: no except branch, a failure of the weighted sum propagates
_compute_net_score_uncaught(mr) ==
    IF NetRaises(mr)
    THEN [raised |-> TRUE, net |-> 0]
    ELSE [raised |-> FALSE, net |-> ClampNet(WeightedSum(mr, 1))]

\* _compute_net_score: the except branch turns a failure of the weighted sum
\* into net score 0.0; nothing outside the try block can raise.  The latency
\* is a clock reading, chosen by the action that applies this.
_compute_net_score(mr) ==
    IF NetRaises(mr)
    THEN [raised |-> FALSE, net |-> 0]
    ELSE [raised |-> FALSE, net |-> ClampNet(WeightedSum(mr, 1))]

(***************************************************************************)
(* score_model: one scoring session                                        *)
(***************************************************************************)
\* what metric.compute(repo_info) can do: return a (value, latency) pair,
\* return something that is not a pair, or raise
Pair(v, l) == [kind |-> "pair", value |-> v, latency |-> l]
Bare(v) == [kind |-> "bare", value |-> v, latency |-> PyNone]
Raise == [kind |-> "raise", value |-> PyNone, latency |-> PyNone]
NotCalled == [kind |-> "none", value |-> PyNone, latency |-> PyNone]

FourTiers == PyDict(<<Item("raspberry_pi", 0), Item("jetson_nano", 500),
                      Item("desktop_pc", 1000), Item("aws_server", 1000)>>)

Outcomes(m) ==
    (IF m = "size_score"
     THEN {Pair(FourTiers, PyInt(MaxLatency)), Pair(PyNone, PyInt(MaxLatency))}
     ELSE {Pair(Num(750), PyInt(MaxLatency)), Pair(PyNone, PyInt(MaxLatency))})
    \cup {Raise}
    \cup (IF m = "ramp_up_time" THEN {Bare(Num(750))} ELSE {})
    \cup (IF m = "code_quality" THEN {Pair(Num(250), PyNone)} ELSE {})

\* the value substituted in the except branch
DefaultValue(m) == IF m = "size_score" THEN EmptyDict ELSE Num(0)

\* faulty variant: the loop stops one element early
LoopDoneEarly(i) == i >= Len(MetricOrder)

\* the for loop is over once every element of `metrics` has been visited
LoopDone(i) == i > Len(MetricOrder)

\* the keyword arguments of the ModelScore(...) call: a float() or int() that
\* raises aborts the call
BuildRaises(mr) ==
    \/ \E m \in ScalarNames : ~IsNumeric(Get(mr, m, Num(0)))
    \/ \E m \in MetricNames : ~IsNumeric(Get(mr, LatencyKey(m), PyInt(0)))

ScoreOf(mr, m) == FloatOf(Get(mr, m, Num(0)))
LatencyOf(mr, m) == IntOf(Get(mr, LatencyKey(m), PyInt(0)))

ModelScore(name, mr, net, lat) ==
    [name |-> name,
     category |-> "MODEL",
     net_score |-> net,
     net_score_latency |-> lat,
     ramp_up_time |-> ScoreOf(mr, "ramp_up_time"),
     ramp_up_time_latency |-> LatencyOf(mr, "ramp_up_time"),
     bus_factor |-> ScoreOf(mr, "bus_factor"),
     bus_factor_latency |-> LatencyOf(mr, "bus_factor"),
     performance_claims |-> ScoreOf(mr, "performance_claims"),
     performance_claims_latency |-> LatencyOf(mr, "performance_claims"),
     license |-> ScoreOf(mr, "license"),
     license_latency |-> LatencyOf(mr, "license"),
     size_score |-> Get(mr, "size_score", EmptyDict),
     size_score_latency |-> LatencyOf(mr, "size_score"),
     dataset_and_code_score |-> ScoreOf(mr, "dataset_and_code_score"),
     dataset_and_code_score_latency |-> LatencyOf(mr, "dataset_and_code_score"),
     dataset_quality |-> ScoreOf(mr, "dataset_quality"),
     dataset_quality_latency |-> LatencyOf(mr, "dataset_quality"),
     code_quality |-> ScoreOf(mr, "code_quality"),
     code_quality_latency |-> LatencyOf(mr, "code_quality")]

NoRecord == <<>>

\* no URL list is being processed
ListIdle ==
    /\ urls = <<>>
    /\ context = <<>>
    /\ results = <<>>
    /\ visited = <<>>

\* the API holds no artifact and has answered no request
ApiIdle ==
    /\ _artifacts_by_id = <<>>
    /\ _artifact_id_by_type_and_url = {}
    /\ response = <<>>

\* no listing is being paged through
PageIdle ==
    /\ ordered = <<>>
    /\ listing = <<>>

\* no ModelScore is being serialized and no context is being shared
Idle ==
    /\ model_score = NoRecord
    /\ ndjson = <<>>
    /\ line = <<>>
    /\ repo_info = <<>>
    /\ calls = <<>>
    /\ ListIdle
    /\ ApiIdle
    /\ PageIdle

Init ==
    /\ pc = "start"
    /\ url \in Urls
    /\ registry \in Registries
    /\ idx = 1
    /\ metric_results = EmptyResults
    /\ returned = [m \in MetricNames |-> NotCalled]
    /\ evalCount = [m \in MetricNames |-> 0]
    /\ aggSeen = [called |-> FALSE, evaluated |-> {}]
    /\ net_score = 0
    /\ net_latency = 0
    /\ record = NoRecord
    /\ mcur = <<>>
    /\ mprev = <<>>
    /\ nmr = EmptyResults
    /\ nres = <<>>
    /\ Idle

\* scorer.py 47-72: parse the URL, fetch and merge the context, build the
\* metric list.  An exception of parse_url is not caught.
Start ==
    /\ pc = "start"
    /\ pc' = IF parse_url(url).raised THEN "raised" ELSE "loop"
    /\ UNCHANGED <<url, registry, idx, metric_results, returned, evalCount,
                   aggSeen, net_score, net_latency, record>>
    /\ UNCHANGED <<metricVars, netVars, recordVars, pureVars, listVars, apiVars, pageVars>>

\* scorer.py 74-83: one iteration of the loop over the metrics.  A class
\* without a `name` attribute makes line 77 raise AttributeError inside the try
\* (or sends a failed compute to the handler), and line 80 of the handler
\* raises it again, out of score_model.
ComputeMetric ==
    /\ pc = "loop"
    /\ ~LoopDone(idx)
    /\ LET m == MetricOrder[idx] IN
       \E out \in Outcomes(m) :
          /\ returned' = [returned EXCEPT ![m] = out]
          /\ evalCount' = [evalCount EXCEPT ![m] = @ + 1]
          /\ IF m \notin registry
             THEN /\ pc' = "raised"
                  /\ UNCHANGED <<idx, metric_results>>
             ELSE /\ pc' = "loop"
                  /\ idx' = idx + 1
                  /\ metric_results' =
                        IF out.kind = "pair"
                        THEN [metric_results EXCEPT
                                 ![m] = out.value,
                                 ![LatencyKey(m)] = out.latency]
                        ELSE [metric_results EXCEPT
                                 ![m] = DefaultValue(m),
                                 ![LatencyKey(m)] = PyInt(0)]
    /\ UNCHANGED <<url, registry, aggSeen, net_score, net_latency, record>>
    /\ UNCHANGED <<metricVars, netVars, recordVars, pureVars, listVars, apiVars, pageVars>>

\* scorer.py 86: the call of _compute_net_score after the loop
Aggregate ==
    /\ pc = "loop"
    /\ LoopDone(idx)
    /\ aggSeen' = [called |-> TRUE,
                   evaluated |-> {m \in MetricNames : evalCount[m] > 0}]
    /\ LET res == _compute_net_score(metric_results) IN
          /\ net_score' = res.net
          /\ pc' = IF res.raised THEN "raised" ELSE "build"
    /\ \E lat \in 0..MaxLatency : net_latency' = lat
    /\ UNCHANGED <<url, registry, idx, metric_results, returned, evalCount, record>>
    /\ UNCHANGED <<metricVars, netVars, recordVars, pureVars, listVars, apiVars, pageVars>>

\* scorer.py 89-110: build and return the ModelScore
Build ==
    /\ pc = "build"
    /\ IF BuildRaises(metric_results)
       THEN /\ pc' = "raised"
            /\ UNCHANGED record
       ELSE /\ pc' = "done"
            /\ record' = ModelScore(parse_url(url).name, metric_results,
                                    net_score, net_latency)
    /\ UNCHANGED <<url, registry, idx, metric_results, returned, evalCount,
                   aggSeen, net_score, net_latency>>
    /\ UNCHANGED <<metricVars, netVars, recordVars, pureVars, listVars, apiVars, pageVars>>

Next == Start \/ ComputeMetric \/ Aggregate \/ Build

Spec == Init /\ [][Next]_vars

(***************************************************************************)
(* _compute_net_score applied to arbitrary metric_results mappings         *)
(***************************************************************************)
TwoTiers == PyDict(<<Item("desktop_pc", 1000), Item("aws_server", 500)>>)
ZeroTiers == PyDict(<<Item("raspberry_pi", 0), Item("jetson_nano", 0),
                      Item("desktop_pc", 0), Item("aws_server", 0)>>)
WideTiers == PyDict(<<Item("raspberry_pi", -1000), Item("jetson_nano", 5000),
                      Item("desktop_pc", 5000), Item("aws_server", 5000)>>)
BadTiers == PyDict(<<Item("raspberry_pi", 1000), BadItem("jetson_nano"),
                     Item("desktop_pc", 1000), Item("aws_server", 1000)>>)

NetInputs(k) ==
    CASE k = "ramp_up_time" ->
            {Absent, Num(-500), Num(0), Num(250), Num(1000), Num(1500),
             PyNone, PyStr(<<"abc">>, 1)}
      [] k = "performance_claims" ->
            {Absent, Num(0), Num(1000), PyBool(TRUE), EmptyDict}
      [] k = "size_score" ->
            {Absent, EmptyDict, PyNone, Num(1000), FourTiers, TwoTiers,
             ZeroTiers, WideTiers, BadTiers}
      [] OTHER -> {Num(0), Num(1000)}

NetInit ==
    /\ \E r \in NetInputs("ramp_up_time"), b \in NetInputs("bus_factor"),
          p \in NetInputs("performance_claims"), l \in NetInputs("license"),
          s \in NetInputs("size_score"), d \in NetInputs("dataset_and_code_score"),
          q \in NetInputs("dataset_quality"), c \in NetInputs("code_quality") :
          nmr = [k \in ResultKeys |->
                   CASE k = "ramp_up_time" -> r
                     [] k = "bus_factor" -> b
                     [] k = "performance_claims" -> p
                     [] k = "license" -> l
                     [] k = "size_score" -> s
                     [] k = "dataset_and_code_score" -> d
                     [] k = "dataset_quality" -> q
                     [] k = "code_quality" -> c
                     [] OTHER -> PyInt(0)]
    /\ nres = <<>>
    /\ pc = "start"
    /\ url = ModelUrl
    /\ registry = ProtocolClasses
    /\ idx = 1
    /\ metric_results = EmptyResults
    /\ returned = [m \in MetricNames |-> NotCalled]
    /\ evalCount = [m \in MetricNames |-> 0]
    /\ aggSeen = [called |-> FALSE, evaluated |-> {}]
    /\ net_score = 0
    /\ net_latency = 0
    /\ record = NoRecord
    /\ mcur = <<>>
    /\ mprev = <<>>
    /\ Idle

\* scorer.py 113-169: one call of _compute_net_score(nmr)
ComputeNet ==
    /\ nres = <<>>
    /\ \E lat \in 0..MaxLatency :
          nres' = [raised |-> _compute_net_score(nmr).raised,
                   net |-> _compute_net_score(nmr).net,
                   latency |-> lat]
    /\ UNCHANGED nmr
    /\ UNCHANGED <<sessionVars, metricVars, recordVars, pureVars, listVars, apiVars, pageVars>>

NetNext == ComputeNet

NetSpec == NetInit /\ [][NetNext]_vars

(***************************************************************************)
(* The metric classes of registry/metrics.  A context maps every key to a  *)
(* Python value, Absent for a key it does not hold.  A text is its word    *)
(* count (n) and the keywords it contains (d); `x in text` is a test on    *)
(* the keywords.  weights_total_bytes is counted in MiB.                   *)
(***************************************************************************)
CtxKeys == {"hf_readme", "license", "git_contributors", "weights_total_bytes",
            "dataset_downloads", "dataset_link", "code_link",
            "example_code_present", "has_tests", "has_ci", "lint_ok",
            "lint_warn"}
EmptyCtx == [k \in CtxKeys |-> Absent]

Returns(v) == [raised |-> FALSE, value |-> v]
Raised == [raised |-> TRUE, value |-> PyNone]

\* str.lower() on a keyword
LowerTok(w) ==
    CASE w = "MIT" -> "mit"
      [] w = "Apache-2.0" -> "apache-2.0"
      [] w = "License" -> "license"
      [] w = "Example" -> "example"
      [] w = "Benchmark" -> "benchmark"
      [] OTHER -> w
Lower(x) == [x EXCEPT !.d = [i \in 1..Len(x.d) |-> LowerTok(x.d[i])]]

\* needle in word, for the keywords of the model
InWord(needle, w) ==
    \/ w = needle
    \/ <<needle, w>> \in {<<"apache", "apache-2.0">>, <<"eval", "evaluation">>,
                          <<"example", "examples">>, <<"mit", "limited">>,
                          <<"gpl", "gpl-3.0">>, <<"mpl", "example">>,
                          <<"mpl", "examples">>, <<"mpl", "example code">>,
                          <<"example", "example code">>,
                          <<"benchmark", "benchmarks">>,
                          <<"dataset", "https://hf.co/datasets/squad">>,
                          <<"squad", "https://hf.co/datasets/squad">>,
                          <<"dataset", "https://hf.co/datasets/xy">>,
                          <<"xy", "https://hf.co/datasets/xy">>,
                          <<"repo", "https://github.com/org/repo">>}
\* needle in text
InText(needle, x) == \E i \in 1..Len(x.d) : InWord(needle, x.d[i])

\* x <= n and x / n are defined for floats, ints and booleans only
Comparable(x) == x.t \in {"num", "int", "bool"}

\* faulty variant: no floor branch, min(1.0, contributors / 5.0) for every count
bus_factor_no_floor(ctx) ==
    LET contributors == Get(ctx, "git_contributors", PyInt(1))
    IN IF ~Comparable(contributors) THEN Raised
       ELSE Returns(Num(Min(1000, FloatOf(contributors) \div 5)))

\* BusFactorMetric.compute
bus_factor(ctx) ==
    LET contributors == Get(ctx, "git_contributors", PyInt(1))
    IN IF ~Comparable(contributors) THEN Raised
       ELSE IF FloatOf(contributors) <= 1000 THEN Returns(Num(100))
       ELSE Returns(Num(Min(1000, FloatOf(contributors) \div 5)))

\* LicenseMetric.compute
license_metric(ctx) ==
    LET given == Truthy(ctx["license"])
    IN IF given /\ ctx["license"].t # "str" THEN Raised
       ELSE IF ~given
       THEN LET readme == Get(ctx, "hf_readme", EmptyStr)
            IN IF readme.t # "str" THEN Raised
               ELSE IF InText("license", Lower(readme)) THEN Returns(Num(500))
               ELSE Returns(Num(0))
       ELSE IF \E pl \in {"lgpl", "mit", "apache", "bsd"} :
                  InText(pl, Lower(ctx["license"]))
       THEN Returns(Num(1000))
       ELSE Returns(Num(200))

\* RampUpTimeMetric.compute
ramp_up_time(ctx) ==
    LET readme == Get(ctx, "hf_readme", EmptyStr)
    IN IF readme.t # "str" THEN Raised
       ELSE LET examples == IF InText("example", Lower(readme))
                               \/ InText("quickstart", Lower(readme))
                            THEN 1000 ELSE 0
                length_score == Min(1000, (1000 * readme.n) \div 300)
            IN Returns(Num((500 * length_score + 500 * examples) \div 1000))

\* PerformanceClaimsMetric.compute
performance_claims(ctx) ==
    LET readme == Get(ctx, "hf_readme", EmptyStr)
    IN IF readme.t # "str" THEN Raised
       ELSE IF \/ InText("benchmark", Lower(readme))
               \/ InText("accuracy", Lower(readme))
               \/ InText("eval", Lower(readme))
       THEN Returns(Num(1000))
       ELSE Returns(Num(0))

\* DatasetAndCodeScoreMetric.compute
dataset_and_code_score(ctx) ==
    LET has_dataset == Truthy(ctx["dataset_link"])
        has_example_code == Truthy(ctx["example_code_present"])
    IN IF has_dataset /\ has_example_code THEN Returns(Num(1000))
       ELSE IF has_dataset \/ has_example_code THEN Returns(Num(500))
       ELSE Returns(Num(0))

\* CodeQualityMetric.compute
code_quality(ctx) ==
    LET has_tests == Get(ctx, "has_tests", PyBool(FALSE))
        has_ci == Get(ctx, "has_ci", PyBool(FALSE))
        lint_score == IF Truthy(ctx["lint_ok"]) THEN 1000
                      ELSE IF Truthy(ctx["lint_warn"]) THEN 500 ELSE 0
    IN IF ~IsNumeric(has_tests) \/ ~IsNumeric(has_ci) THEN Raised
       ELSE Returns(Num(Min(1000,
               (400 * FloatOf(has_tests) + 300 * FloatOf(has_ci)
                  + 300 * lint_score) \div 1000)))

\* math.log1p(d) in thousandths, rounded down, at the download counts of the
\* model (a step function through these points)
Log1pMilli(d) ==
    IF d >= 1000000 THEN 13815
    ELSE IF d >= 22026 THEN 10000
    ELSE IF d >= 22025 THEN 9999
    ELSE IF d >= 1000 THEN 6908
    ELSE IF d >= 100 THEN 4615
    ELSE IF d >= 6 THEN 1945
    ELSE IF d >= 2 THEN 1098
    ELSE IF d >= 1 THEN 693
    ELSE 0

\* DatasetQualityMetric.compute: the score of the (score, latency_ms) pair
dataset_quality(ctx) ==
    LET downloads == Get(ctx, "dataset_downloads", PyInt(0))
    IN IF ~Comparable(downloads) THEN Returns(Num(0))
       ELSE IF downloads.n <= 0 THEN Returns(Num(Max(0, Min(1000, 200))))
       ELSE Returns(Num(Max(0, Min(1000,
               Min(1000, Log1pMilli(IntOf(downloads)) \div 10)))))

\* the thresholds dict of SizeScoreMetric.compute, in MiB
thresholds(k) ==
    CASE k = "raspberry_pi" -> 50
      [] k = "jetson_nano" -> 700
      [] k = "desktop_pc" -> 8 * 1024
      [] k = "aws_server" -> 100 * 1024

\* faulty variant: no branch for an unknown size, so None reaches the comparison
size_score_no_default(ctx) ==
    LET total == Get(ctx, "weights_total_bytes", PyNone)
    IN IF ~Comparable(total) THEN Raised
       ELSE Returns(PyDict([i \in 1..Len(TierOrder) |->
               LET thresh == thresholds(TierOrder[i])
               IN Item(TierOrder[i],
                       IF total.n <= thresh THEN 1000
                       ELSE Min(1000, Max(0,
                              1000 - (1000 * (total.n - thresh)) \div (thresh * 10))))]))

\* SizeScoreMetric.compute
size_score(ctx) ==
    LET total == Get(ctx, "weights_total_bytes", PyNone)
    IN IF total.t = "none"
       THEN Returns(PyDict(<<Item("raspberry_pi", 0), Item("jetson_nano", 0),
                             Item("desktop_pc", 1000), Item("aws_server", 1000)>>))
       ELSE IF ~Comparable(total) THEN Raised
       ELSE Returns(PyDict([i \in 1..Len(TierOrder) |->
               LET thresh == thresholds(TierOrder[i])
               IN Item(TierOrder[i],
                       IF total.n <= thresh THEN 1000
                       ELSE Min(1000, Max(0,
                              1000 - (1000 * (total.n - thresh)) \div (thresh * 10))))]))

(***************************************************************************)
(* The metric classes of the second tree, src/src/registry/metrics: each   *)
(* compute wraps its body in try/except and returns (score, latency_ms);   *)
(* the operators give the score.                                           *)
(***************************************************************************)
\* x >= k for a number x and an integer k
AtLeast(x, k) == FloatOf(x) >= 1000 * k

\* DatasetQualityMetric.compute (second tree): steps over the download count
src_dataset_quality(ctx) ==
    LET downloads == Get(ctx, "dataset_downloads", PyInt(0))
        score == IF AtLeast(downloads, 100000) THEN 1000
                 ELSE IF AtLeast(downloads, 50000) THEN 900
                 ELSE IF AtLeast(downloads, 10000) THEN 800
                 ELSE IF AtLeast(downloads, 5000) THEN 700
                 ELSE IF AtLeast(downloads, 1000) THEN 600
                 ELSE IF AtLeast(downloads, 500) THEN 500
                 ELSE IF AtLeast(downloads, 100) THEN 400
                 ELSE IF AtLeast(downloads, 50) THEN 300
                 ELSE IF FloatOf(downloads) > 0 THEN 200
                 ELSE 0
    IN IF ~Comparable(downloads) THEN Returns(Num(0))
       ELSE Returns(Num(Max(0, Min(1000, score))))

\* (repo_info.get("hf_readme", "") or ""): a falsy value becomes ""
ReadmeOrEmpty(ctx) ==
    LET readme == Get(ctx, "hf_readme", EmptyStr)
    IN IF Truthy(readme) THEN readme ELSE EmptyStr

\* the regular expression of has_numbers on a keyword: a percentage or a
\* decimal number
NumericToken(w) == w \in {"92.3%", "85%", "0.95", "apache-2.0", "gpl-3.0"}
HasNumbers(x) == \E i \in 1..Len(x.d) : NumericToken(x.d[i])

\* PerformanceClaimsMetric.compute (second tree)
src_performance_claims(ctx) ==
    LET readme == ReadmeOrEmpty(ctx)
        text == Lower(readme)
        benchmark_keyword ==
            \E k \in {"benchmark", "benchmarks", "leaderboard", "sota"} :
               InText(k, text)
        metric_keyword ==
            \E k \in {"accuracy", "f1", "bleu", "rouge", "perplexity", "mmlu",
                      "hellaswag", "truthfulqa", "precision", "recall", "auc"} :
               InText(k, text)
        has_numbers == HasNumbers(text)
    IN IF readme.t # "str" THEN Returns(Num(0))
       ELSE IF benchmark_keyword /\ metric_keyword /\ has_numbers
       THEN Returns(Num(1000))
       ELSE IF benchmark_keyword /\ metric_keyword THEN Returns(Num(500))
       ELSE IF metric_keyword THEN Returns(Num(250))
       ELSE Returns(Num(0))

\* str(repo_info.get(key) or "") for a link that is a string or missing
LinkOrEmpty(ctx, key) == IF Truthy(ctx[key]) THEN ctx[key] ELSE EmptyStr

\* link.rstrip("/").split("/")[-1].lower()
Slug(link) ==
    CASE link = "https://hf.co/datasets/squad" -> "squad"
      [] link = "https://hf.co/datasets/xy" -> "xy"
      [] link = "https://github.com/org/repo" -> "repo"
      [] link = "https://x" -> "x"
      [] OTHER -> link
\* len(slug) > 3
LongSlug(slug) == slug \in {"squad", "repo"}

\* mentioned(link) of DatasetAndCodeScoreMetric.compute
mentioned(link, readme) ==
    /\ Truthy(link)
    /\ \/ InText(LowerTok(link.d[1]), readme)
       \/ (LongSlug(Slug(link.d[1])) /\ InText(Slug(link.d[1]), readme))

\* faulty variant: a quarter credit for a resource that is present but not
\* documented in the README
src_dataset_and_code_score_graded(ctx) ==
    LET has_dataset == Truthy(LinkOrEmpty(ctx, "dataset_link"))
        has_code == Truthy(LinkOrEmpty(ctx, "code_link"))
                       \/ Truthy(ctx["example_code_present"])
    IN IF has_dataset \/ has_code THEN Returns(Num(250)) ELSE Returns(Num(0))

\* DatasetAndCodeScoreMetric.compute (second tree)
src_dataset_and_code_score(ctx) ==
    LET dataset_link == LinkOrEmpty(ctx, "dataset_link")
        code_link == LinkOrEmpty(ctx, "code_link")
        has_dataset == Truthy(dataset_link)
        has_code == Truthy(code_link) \/ Truthy(ctx["example_code_present"])
        raw == ReadmeOrEmpty(ctx)
        readme == Lower(raw)
        dataset_mentioned == has_dataset /\ mentioned(dataset_link, readme)
        code_mentioned == has_code /\ mentioned(code_link, readme)
        dataset_keyword ==
            \E k \in {"dataset", "training data", "train data", "data source"} :
               InText(k, readme)
        code_keyword ==
            \E k \in {"example code", "code example", "sample code",
                      "usage example", "training code", "inference code"} :
               InText(k, readme)
        dataset_documented == dataset_mentioned \/ (has_dataset /\ dataset_keyword)
        code_documented == code_mentioned \/ (has_code /\ code_keyword)
    IN IF raw.t # "str" THEN Returns(Num(0))
       ELSE IF dataset_documented /\ code_documented THEN Returns(Num(1000))
       ELSE IF dataset_documented \/ code_documented THEN Returns(Num(500))
       ELSE Returns(Num(0))

\* the keyword for a Markdown code fence (three backquotes)
CodeFence == "<fence>"

\* faulty variant: the instance remembers that it was called and scores a
\* later call from the word count alone
src_ramp_up_time_stateful(ctx) ==
    LET readme == Get(ctx, "hf_readme", EmptyStr)
    IN IF readme.t # "str" THEN Returns(Num(0))
       ELSE IF calls.last = <<>> THEN Returns(Num(1000))
       ELSE Returns(Num(IF readme.n >= 150 THEN 500 ELSE 0))

\* RampUpTimeMetric.compute (second tree)
src_ramp_up_time(ctx) ==
    LET readme == Get(ctx, "hf_readme", EmptyStr)
        readme_lower == Lower(readme)
        word_count == readme.n
        length_score == IF word_count >= 150 THEN 500
                        ELSE IF word_count >= 100 THEN 400
                        ELSE IF word_count >= 50 THEN 300
                        ELSE IF word_count > 0 THEN 100
                        ELSE 0
        has_examples ==
            \E k \in {"example", "quickstart", "getting started", "usage"} :
               InText(k, readme_lower)
        has_code ==
            \/ InText(CodeFence, readme)
            \/ \E k \in {"import", "from ", "def ", "class "} :
                  InText(k, readme_lower)
        score == length_score + (IF has_examples THEN 350 ELSE 0)
                    + (IF has_code THEN 150 ELSE 0)
    IN IF readme.t # "str" THEN Returns(Num(0))
       ELSE Returns(Num(Max(0, Min(1000, score))))

\* the permissive_keywords list of LicenseMetric.compute (second tree)
permissive_keywords ==
    {"mit", "apache", "bsd", "lgpl", "gpl", "mpl", "unlicense", "cc0", "cc-by",
     "cc-0", "isc", "wtfpl", "public domain", "0bsd", "zlib", "apache-2.0",
     "bsd-3", "bsd-2"}

\* LicenseMetric.compute (second tree)
src_license(ctx) ==
    LET given == Truthy(ctx["license"])
        lic == IF given THEN Lower(ctx["license"]) ELSE EmptyStr
        raw == Get(ctx, "hf_readme", EmptyStr)
        readme == Lower(raw)
        score == IF Truthy(lic)
                 THEN (IF \E k \in permissive_keywords : InText(k, lic)
                       THEN 1000 ELSE 850)
                 ELSE IF Truthy(readme)
                 THEN (IF \E k \in permissive_keywords : InText(k, readme)
                       THEN 900
                       ELSE IF InText("license", readme) \/ InText("licence", readme)
                       THEN 800
                       ELSE 700)
                 ELSE 700
    IN IF (given /\ ctx["license"].t # "str") \/ raw.t # "str"
       THEN Returns(Num(750))
       ELSE Returns(Num(Max(0, Min(1000, score))))

\* the score_dict of SizeScoreMetric.compute (second tree) when the size is
\* unknown or the computation failed
src_size_default ==
    PyDict(<<Item("raspberry_pi", 800), Item("jetson_nano", 850),
             Item("desktop_pc", 950), Item("aws_server", 1000)>>)

\* size_gb < g for a size in MiB, g in tenths of a GiB
BelowGb(mib, tenths) == 10 * mib < 1024 * tenths

\* SizeScoreMetric.compute (second tree)
src_size_score(ctx) ==
    LET total == Get(ctx, "weights_total_bytes", PyNone)
        mib == total.n
        rpi_score == IF BelowGb(mib, 1) THEN 1000
                     ELSE IF BelowGb(mib, 5) THEN 950
                     ELSE IF BelowGb(mib, 10) THEN 900
                     ELSE IF BelowGb(mib, 20) THEN 850
                     ELSE IF BelowGb(mib, 50) THEN 750
                     ELSE 700
        jetson_score == IF BelowGb(mib, 5) THEN 1000
                        ELSE IF BelowGb(mib, 20) THEN 950
                        ELSE IF BelowGb(mib, 40) THEN 900
                        ELSE IF BelowGb(mib, 100) THEN 850
                        ELSE 750
        desktop_score == IF BelowGb(mib, 50) THEN 1000
                         ELSE IF BelowGb(mib, 150) THEN 950
                         ELSE IF BelowGb(mib, 300) THEN 900
                         ELSE IF BelowGb(mib, 1000) THEN 850
                         ELSE 800
        aws_score == IF BelowGb(mib, 500) THEN 1000
                     ELSE IF BelowGb(mib, 2000) THEN 980
                     ELSE IF BelowGb(mib, 5000) THEN 950
                     ELSE 900
    IN IF total.t = "none" THEN Returns(src_size_default)
       ELSE IF ~Comparable(total) THEN Returns(src_size_default)
       ELSE Returns(PyDict(<<Item("raspberry_pi", rpi_score),
                             Item("jetson_nano", jetson_score),
                             Item("desktop_pc", desktop_score),
                             Item("aws_server", aws_score)>>))

\* CodeQualityMetric.compute (second tree)
src_code_quality(ctx) ==
    LET has_tests == Truthy(Get(ctx, "has_tests", PyBool(FALSE)))
        has_ci == Truthy(Get(ctx, "has_ci", PyBool(FALSE)))
        lint_ok == Truthy(Get(ctx, "lint_ok", PyBool(FALSE)))
        lint_warn == Truthy(Get(ctx, "lint_warn", PyBool(FALSE)))
        score == (IF has_tests THEN 400 ELSE 0) + (IF has_ci THEN 300 ELSE 0)
                    + (IF lint_ok THEN 300 ELSE IF lint_warn THEN 150 ELSE 0)
    IN Returns(Num(Max(0, Min(1000, score))))

(***************************************************************************)
(* Metric evaluations on bounded contexts (MetricSpec): mcur is the last   *)
(* evaluation, mprev the one before it when it was of the same metric.     *)
(***************************************************************************)
With1(k, v) == [EmptyCtx EXCEPT ![k] = v]

WrongTypes == {Absent, PyNone, PyStr(<<"abc">>, 1)}

ContribInputs == WrongTypes \cup {PyInt(c) : c \in (-1)..MaxContrib}
                    \cup {PyBool(TRUE)}
SizeInputs == WrongTypes \cup
    {PyInt(b) : b \in {0, 10, 50, 51, 300, 500, 700, 4000, 7700, 8192,
                       50000, 102400, 1126400, 2000000}}
DownloadInputs == WrongTypes \cup
    {PyInt(d) : d \in {-1, 0, 1, 2, 6, 100, 1000, 22025, 22026, 1000000}}
Readmes == {Absent, PyNone, PyInt(5), EmptyStr,
            PyStr(<<"License", "MIT">>, 2),
            PyStr(<<"Example", "accuracy">>, 150),
            PyStr(<<"quickstart", "Benchmark", "evaluation">>, 300),
            PyStr(<<"weights">>, 450)}
Licenses == {Absent, PyNone, PyInt(5), PyStr(<<"MIT">>, 1),
             PyStr(<<"Apache-2.0">>, 1), PyStr(<<"gpl-3.0">>, 1)}
Links == {Absent, PyNone, EmptyStr, PyStr(<<"https://x">>, 1)}
Flags == {Absent, PyBool(FALSE), PyBool(TRUE), PyInt(1)}
TestFlags == {Absent, PyBool(FALSE), PyBool(TRUE), PyInt(-1), PyNone}
CiFlags == {Absent, PyBool(TRUE), PyStr(<<"abc">>, 1)}
LintFlags == {Absent, PyBool(TRUE)}

NoEval == <<>>

\* the two source trees that hold metric classes
Trees == {"CSCI461", "src"}

\* the record of one evaluation: the class (tree and metric), its context,
\* what compute did
EvaluationOf(tree, m, ctx, res, lat) ==
    [tree |-> tree, metric |-> m, ctx |-> ctx, raised |-> res.raised,
     value |-> res.value, latency |-> lat]
\* the evaluation before this one, kept when it was of the same class
PreviousOf(tree, m) ==
    IF mcur # NoEval /\ mcur.tree = tree /\ mcur.metric = m THEN mcur
    ELSE NoEval

\* evaluations of the classes of CSCI461/src/registry/metrics
Evaluation(m, ctx, res, lat) == EvaluationOf("CSCI461", m, ctx, res, lat)
Previous(m) == PreviousOf("CSCI461", m)

EvalBusFactor ==
    \E c \in ContribInputs :
       LET ctx == With1("git_contributors", c)
       IN /\ mcur' = Evaluation("bus_factor", ctx, bus_factor(ctx), PyNone)
          /\ mprev' = Previous("bus_factor")
          /\ UNCHANGED <<sessionVars, netVars, recordVars, pureVars, listVars, apiVars, pageVars>>

EvalLicense ==
    \E l \in Licenses, r \in Readmes :
       LET ctx == [EmptyCtx EXCEPT !["license"] = l, !["hf_readme"] = r]
       IN /\ mcur' = Evaluation("license", ctx, license_metric(ctx), PyNone)
          /\ mprev' = Previous("license")
          /\ UNCHANGED <<sessionVars, netVars, recordVars, pureVars, listVars, apiVars, pageVars>>

EvalRampUpTime ==
    \E r \in Readmes :
       LET ctx == With1("hf_readme", r)
       IN /\ mcur' = Evaluation("ramp_up_time", ctx, ramp_up_time(ctx), PyNone)
          /\ mprev' = Previous("ramp_up_time")
          /\ UNCHANGED <<sessionVars, netVars, recordVars, pureVars, listVars, apiVars, pageVars>>

EvalPerformanceClaims ==
    \E r \in Readmes :
       LET ctx == With1("hf_readme", r)
       IN /\ mcur' = Evaluation("performance_claims", ctx, performance_claims(ctx), PyNone)
          /\ mprev' = Previous("performance_claims")
          /\ UNCHANGED <<sessionVars, netVars, recordVars, pureVars, listVars, apiVars, pageVars>>

EvalDatasetAndCodeScore ==
    \E d \in Links, e \in Flags :
       LET ctx == [EmptyCtx EXCEPT !["dataset_link"] = d,
                                   !["example_code_present"] = e]
       IN /\ mcur' = Evaluation("dataset_and_code_score", ctx, dataset_and_code_score(ctx), PyNone)
          /\ mprev' = Previous("dataset_and_code_score")
          /\ UNCHANGED <<sessionVars, netVars, recordVars, pureVars, listVars, apiVars, pageVars>>

EvalCodeQuality ==
    \E t \in TestFlags, c \in CiFlags, ok \in LintFlags, w \in LintFlags :
       LET ctx == [EmptyCtx EXCEPT !["has_tests"] = t, !["has_ci"] = c,
                                   !["lint_ok"] = ok, !["lint_warn"] = w]
       IN /\ mcur' = Evaluation("code_quality", ctx, code_quality(ctx), PyNone)
          /\ mprev' = Previous("code_quality")
          /\ UNCHANGED <<sessionVars, netVars, recordVars, pureVars, listVars, apiVars, pageVars>>

EvalDatasetQuality ==
    \E d \in DownloadInputs, lat \in 0..MaxLatency :
       LET ctx == With1("dataset_downloads", d)
       IN /\ mcur' = Evaluation("dataset_quality", ctx, dataset_quality(ctx), PyInt(lat))
          /\ mprev' = Previous("dataset_quality")
          /\ UNCHANGED <<sessionVars, netVars, recordVars, pureVars, listVars, apiVars, pageVars>>

EvalSizeScore ==
    \E b \in SizeInputs :
       LET ctx == With1("weights_total_bytes", b)
       IN /\ mcur' = Evaluation("size_score", ctx, size_score(ctx), PyNone)
          /\ mprev' = Previous("size_score")
          /\ UNCHANGED <<sessionVars, netVars, recordVars, pureVars, listVars, apiVars, pageVars>>

\* contexts for the classes of the second tree
SrcDownloadInputs == WrongTypes \cup
    {PyInt(d) : d \in {-1, 0, 1, 50, 100, 500, 1000, 5000, 10000, 50000, 100000}}
SrcReadmes == {Absent, PyNone, PyInt(5), EmptyStr,
               PyStr(<<"Benchmark", "accuracy", "92.3%">>, 60),
               PyStr(<<"benchmarks", "accuracy">>, 120),
               PyStr(<<"precision", "0.95">>, 10),
               PyStr(<<"leaderboard", "85%">>, 150),
               PyStr(<<"usage", CodeFence, "import">>, 200),
               PyStr(<<"weights">>, 450)}
DocReadmes == {Absent, PyInt(5),
               PyStr(<<"weights">>, 450),
               PyStr(<<"dataset", "example code">>, 100),
               PyStr(<<"https://hf.co/datasets/squad">>, 20),
               PyStr(<<"squad", "repo">>, 20),
               PyStr(<<"xy">>, 5)}
DatasetLinks == {Absent, PyStr(<<"https://hf.co/datasets/squad">>, 1),
                 PyStr(<<"https://hf.co/datasets/xy">>, 1)}
CodeLinks == {Absent, PyStr(<<"https://github.com/org/repo">>, 1)}
CodeFlags == {Absent, PyBool(TRUE)}
LicenseReadmes == {Absent, PyNone, EmptyStr, PyStr(<<"License">>, 1),
                   PyStr(<<"License", "MIT">>, 2),
                   PyStr(<<"Example", "accuracy">>, 150),
                   PyStr(<<"weights">>, 450)}
SrcTestFlags == {Absent, PyBool(TRUE), PyInt(-1)}
\* latency_ms = int(round(elapsed * 1000)): the shortest and the longest
SrcLatencies == {0, MaxLatency}
SrcLicenses == {Absent, PyInt(5), PyStr(<<"Apache-2.0">>, 1),
                PyStr(<<"proprietary">>, 1)}

EvalSrcDatasetQuality ==
    \E d \in SrcDownloadInputs, lat \in SrcLatencies :
       LET ctx == With1("dataset_downloads", d)
       IN /\ mcur' = EvaluationOf("src", "dataset_quality", ctx,
                                  src_dataset_quality(ctx), PyInt(lat))
          /\ mprev' = PreviousOf("src", "dataset_quality")
          /\ UNCHANGED <<sessionVars, netVars, recordVars, pureVars, listVars, apiVars, pageVars>>

EvalSrcPerformanceClaims ==
    \E r \in SrcReadmes, lat \in SrcLatencies :
       LET ctx == With1("hf_readme", r)
       IN /\ mcur' = EvaluationOf("src", "performance_claims", ctx,
                                  src_performance_claims(ctx), PyInt(lat))
          /\ mprev' = NoEval
          /\ UNCHANGED <<sessionVars, netVars, recordVars, pureVars, listVars, apiVars, pageVars>>

EvalSrcDatasetAndCodeScore ==
    \E d \in DatasetLinks, c \in CodeLinks, e \in CodeFlags, r \in DocReadmes,
       lat \in SrcLatencies :
       LET ctx == [EmptyCtx EXCEPT !["dataset_link"] = d, !["code_link"] = c,
                                   !["example_code_present"] = e,
                                   !["hf_readme"] = r]
       IN /\ mcur' = EvaluationOf("src", "dataset_and_code_score", ctx,
                                  src_dataset_and_code_score(ctx), PyInt(lat))
          /\ mprev' = NoEval
          /\ UNCHANGED <<sessionVars, netVars, recordVars, pureVars, listVars, apiVars, pageVars>>

EvalSrcRampUpTime ==
    \E r \in SrcReadmes, lat \in SrcLatencies :
       LET ctx == With1("hf_readme", r)
       IN /\ mcur' = EvaluationOf("src", "ramp_up_time", ctx,
                                  src_ramp_up_time(ctx), PyInt(lat))
          /\ mprev' = NoEval
          /\ UNCHANGED <<sessionVars, netVars, recordVars, pureVars, listVars, apiVars, pageVars>>

EvalSrcLicense ==
    \E l \in SrcLicenses, r \in LicenseReadmes, lat \in SrcLatencies :
       LET ctx == [EmptyCtx EXCEPT !["license"] = l, !["hf_readme"] = r]
       IN /\ mcur' = EvaluationOf("src", "license", ctx, src_license(ctx),
                                  PyInt(lat))
          /\ mprev' = NoEval
          /\ UNCHANGED <<sessionVars, netVars, recordVars, pureVars, listVars, apiVars, pageVars>>

EvalSrcSizeScore ==
    \E b \in SizeInputs, lat \in SrcLatencies :
       LET ctx == With1("weights_total_bytes", b)
       IN /\ mcur' = EvaluationOf("src", "size_score", ctx,
                                  src_size_score(ctx), PyInt(lat))
          /\ mprev' = NoEval
          /\ UNCHANGED <<sessionVars, netVars, recordVars, pureVars, listVars, apiVars, pageVars>>

EvalSrcCodeQuality ==
    \E t \in SrcTestFlags, c \in CiFlags, ok \in LintFlags, w \in LintFlags,
       lat \in SrcLatencies :
       LET ctx == [EmptyCtx EXCEPT !["has_tests"] = t, !["has_ci"] = c,
                                   !["lint_ok"] = ok, !["lint_warn"] = w]
       IN /\ mcur' = EvaluationOf("src", "code_quality", ctx,
                                  src_code_quality(ctx), PyInt(lat))
          /\ mprev' = NoEval
          /\ UNCHANGED <<sessionVars, netVars, recordVars, pureVars, listVars, apiVars, pageVars>>

MetricInit ==
    /\ mcur = NoEval
    /\ mprev = NoEval
    /\ nmr = EmptyResults
    /\ nres = <<>>
    /\ pc = "start"
    /\ url = ModelUrl
    /\ registry = ProtocolClasses
    /\ idx = 1
    /\ metric_results = EmptyResults
    /\ returned = [m \in MetricNames |-> NotCalled]
    /\ evalCount = [m \in MetricNames |-> 0]
    /\ aggSeen = [called |-> FALSE, evaluated |-> {}]
    /\ net_score = 0
    /\ net_latency = 0
    /\ record = NoRecord
    /\ Idle

MetricNext ==
    \/ EvalBusFactor
    \/ EvalLicense
    \/ EvalRampUpTime
    \/ EvalPerformanceClaims
    \/ EvalDatasetAndCodeScore
    \/ EvalCodeQuality
    \/ EvalDatasetQuality
    \/ EvalSizeScore

MetricSpec == MetricInit /\ [][MetricNext]_vars

SrcMetricNext ==
    \/ EvalSrcDatasetQuality
    \/ EvalSrcPerformanceClaims
    \/ EvalSrcDatasetAndCodeScore
    \/ EvalSrcRampUpTime
    \/ EvalSrcLicense
    \/ EvalSrcSizeScore
    \/ EvalSrcCodeQuality

\* evaluations of the classes of both trees
TreesNext == MetricNext \/ SrcMetricNext

TreesSpec == MetricInit /\ [][TreesNext]_vars

(***************************************************************************)
(* Serialization of a ModelScore (RecordSpec).  Here a float is counted in *)
(* units of 10^-5, so that round(x, 3) has digits to drop; model_score is  *)
(* the dataclass object, ndjson the OrderedDict as a sequence of items.    *)
(***************************************************************************)
\* round(x, 3): the nearest multiple of 0.001, a tie going to the even one
Round3(x) ==
    LET q == x \div 100
        r == x % 100
    IN IF r < 50 THEN 100 * q
       ELSE IF r > 50 THEN 100 * (q + 1)
       ELSE IF q % 2 = 0 THEN 100 * q
       ELSE 100 * (q + 1)

\* one item of the OrderedDict
Field(k, v) == [k |-> k, v |-> v]

\* faulty variant: the items in the order of the ScoreTimings declaration,
\* scores first and latencies after them
to_ndjson_dict_grouped(ms) ==
    <<Field("name", ms.name),
      Field("category", ms.category),
      Field("ramp_up_time", Round3(ms.ramp_up_time)),
      Field("bus_factor", Round3(ms.bus_factor)),
      Field("performance_claims", Round3(ms.performance_claims)),
      Field("license", Round3(ms.license)),
      Field("dataset_and_code_score", Round3(ms.dataset_and_code_score)),
      Field("dataset_quality", Round3(ms.dataset_quality)),
      Field("code_quality", Round3(ms.code_quality)),
      Field("net_score", Round3(ms.net_score)),
      Field("ramp_up_time_latency", ms.ramp_up_time_latency),
      Field("bus_factor_latency", ms.bus_factor_latency),
      Field("performance_claims_latency", ms.performance_claims_latency),
      Field("license_latency", ms.license_latency),
      Field("size_score_latency", ms.size_score_latency),
      Field("dataset_and_code_score_latency", ms.dataset_and_code_score_latency),
      Field("dataset_quality_latency", ms.dataset_quality_latency),
      Field("code_quality_latency", ms.code_quality_latency),
      Field("net_score_latency", ms.net_score_latency),
      Field("size_score", ms.size_score)>>

\* ModelScore.to_ndjson_dict
to_ndjson_dict(ms) ==
    <<Field("name", ms.name),
      Field("category", ms.category),
      Field("net_score", Round3(ms.net_score)),
      Field("net_score_latency", ms.net_score_latency),
      Field("ramp_up_time", Round3(ms.ramp_up_time)),
      Field("ramp_up_time_latency", ms.ramp_up_time_latency),
      Field("bus_factor", Round3(ms.bus_factor)),
      Field("bus_factor_latency", ms.bus_factor_latency),
      Field("performance_claims", Round3(ms.performance_claims)),
      Field("performance_claims_latency", ms.performance_claims_latency),
      Field("license", Round3(ms.license)),
      Field("license_latency", ms.license_latency),
      Field("size_score", ms.size_score),
      Field("size_score_latency", ms.size_score_latency),
      Field("dataset_and_code_score", Round3(ms.dataset_and_code_score)),
      Field("dataset_and_code_score_latency", ms.dataset_and_code_score_latency),
      Field("dataset_quality", Round3(ms.dataset_quality)),
      Field("dataset_quality_latency", ms.dataset_quality_latency),
      Field("code_quality", Round3(ms.code_quality)),
      Field("code_quality_latency", ms.code_quality_latency)>>

\* float scores a ModelScore can hold: 0.0, log1p(1)/10, a tie that rounds
\* up to the even 0.334, 1.0
FineScores == {0, 6931, 33350, 100000}
CoarseScores == {0, 50000}
\* size_score mappings a ModelScore can hold: the substitute for a failed
\* metric, the defaults of the two trees, and the decay values of 701 MiB
SizeMappings ==
    {EmptyDict,
     PyDict(<<Item("raspberry_pi", 0), Item("jetson_nano", 0),
              Item("desktop_pc", 100000), Item("aws_server", 100000)>>),
     PyDict(<<Item("raspberry_pi", 80000), Item("jetson_nano", 85000),
              Item("desktop_pc", 95000), Item("aws_server", 100000)>>),
     PyDict(<<Item("raspberry_pi", 0), Item("jetson_nano", 99986),
              Item("desktop_pc", 100000), Item("aws_server", 100000)>>)}

\* the other specifications' variables, at rest
SessionIdle ==
    /\ pc = "start"
    /\ url = ModelUrl
    /\ registry = ProtocolClasses
    /\ idx = 1
    /\ metric_results = EmptyResults
    /\ returned = [m \in MetricNames |-> NotCalled]
    /\ evalCount = [m \in MetricNames |-> 0]
    /\ aggSeen = [called |-> FALSE, evaluated |-> {}]
    /\ net_score = 0
    /\ net_latency = 0
    /\ record = NoRecord
    /\ mcur = NoEval
    /\ mprev = NoEval
    /\ nmr = EmptyResults
    /\ nres = <<>>

\* names parse_url gives to lines of the URL file: "https://huggingface.co/bert",
\* ".../org/model" and ".../org/my model" (read_url_file strips the ends of a
\* line and keeps what is inside it)
Names == {"bert", "org/model", "org/my model"}

\* a ModelScore as score_model builds it: float() scores, int() latencies
RecordInit ==
    /\ \E nm \in Names, n \in FineScores, r \in FineScores,
          b \in FineScores, q \in FineScores, p \in CoarseScores,
          l \in CoarseScores, d \in CoarseScores, c \in CoarseScores,
          s \in SizeMappings, nl \in SrcLatencies, ml \in 0..MaxLatency :
          model_score =
             [name |-> nm, category |-> "MODEL",
              net_score |-> n, net_score_latency |-> nl,
              ramp_up_time |-> r, ramp_up_time_latency |-> ml,
              bus_factor |-> b, bus_factor_latency |-> ml,
              performance_claims |-> p, performance_claims_latency |-> ml,
              license |-> l, license_latency |-> ml,
              size_score |-> s, size_score_latency |-> ml,
              dataset_and_code_score |-> d,
              dataset_and_code_score_latency |-> ml,
              dataset_quality |-> q, dataset_quality_latency |-> ml,
              code_quality |-> c, code_quality_latency |-> ml]
    /\ ndjson = <<>>
    /\ line = <<>>
    /\ repo_info = <<>>
    /\ calls = <<>>
    /\ ListIdle
    /\ ApiIdle
    /\ PageIdle
    /\ SessionIdle

ToNdjsonDict ==
    /\ ndjson = <<>>
    /\ ndjson' = to_ndjson_dict(model_score)
    /\ UNCHANGED <<model_score, line, pureVars, sessionVars, metricVars, netVars>>
    /\ UNCHANGED <<listVars, apiVars, pageVars>>

\* The line json.dumps writes, as a sequence of tokens: punctuation, string
\* literals, float literals (repr of the float, which reads back exactly) and
\* int literals.
Punct(c) == [q |-> "punct", s |-> c, n |-> 0]
StrTok(x) == [q |-> "string", s |-> x, n |-> 0]
FloatTok(x) == [q |-> "float", s |-> "", n |-> x]
IntTok(x) == [q |-> "int", s |-> "", n |-> x]

\* the separators handed to json.dumps
item_separator == ","
key_separator == ":"

\* the Python type of the value of a field of the record: str for name and
\* category, dict for size_score, int for a latency, float for a score
TypeOfField(k) ==
    IF k \in {"name", "category"} THEN "str"
    ELSE IF k = "size_score" THEN "dict"
    ELSE IF k \in LatencyKeys \cup {"net_score_latency"} THEN "int"
    ELSE "float"

\* the members of a nested mapping of floats, from member i on
RECURSIVE DumpsTiers(_, _)
DumpsTiers(members, i) ==
    IF i > Len(members) THEN <<>>
    ELSE (IF i > 1 THEN <<Punct(item_separator)>> ELSE <<>>)
         \o <<StrTok(members[i].k), Punct(key_separator), FloatTok(members[i].v)>>
         \o DumpsTiers(members, i + 1)

\* json.dumps of one value
DumpsValue(k, v) ==
    CASE TypeOfField(k) = "str" -> <<StrTok(v)>>
      [] TypeOfField(k) = "int" -> <<IntTok(v)>>
      [] TypeOfField(k) = "float" -> <<FloatTok(v)>>
      [] TypeOfField(k) = "dict" ->
            <<Punct("{")>> \o DumpsTiers(v.d, 1) \o <<Punct("}")>>

\* the members of the record, from member i on
RECURSIVE DumpsMembers(_, _)
DumpsMembers(data, i) ==
    IF i > Len(data) THEN <<>>
    ELSE (IF i > 1 THEN <<Punct(item_separator)>> ELSE <<>>)
         \o <<StrTok(data[i].k), Punct(key_separator)>>
         \o DumpsValue(data[i].k, data[i].v)
         \o DumpsMembers(data, i + 1)

\* format_ndjson_line: json.dumps(data, separators=(",", ":"))
format_ndjson_line(data) ==
    <<Punct("{")>> \o DumpsMembers(data, 1) \o <<Punct("}")>>

\* json.loads of the members of an object whose first member starts at token
\* i (or whose closing brace is token i): the members read and the index of
\* the token after the closing brace.  A nested object becomes a dict.
RECURSIVE LoadsMembers(_, _, _)
LoadsMembers(toks, i, acc) ==
    IF toks[i] = Punct("}") THEN [members |-> acc, next |-> i + 1]
    ELSE LET k == toks[i].s
             nested == LoadsMembers(toks, i + 3, <<>>)
             isObject == toks[i + 2] = Punct("{")
             v == IF isObject
                  THEN PyDict([j \in 1..Len(nested.members) |->
                                  Item(nested.members[j].k, nested.members[j].v)])
                  ELSE IF toks[i + 2].q = "string" THEN toks[i + 2].s
                  ELSE toks[i + 2].n
             after == IF isObject THEN nested.next ELSE i + 3
         IN IF toks[after] = Punct(item_separator)
            THEN LoadsMembers(toks, after + 1, Append(acc, Field(k, v)))
            ELSE [members |-> Append(acc, Field(k, v)), next |-> after + 1]

\* parsed = json.loads(result)
json_loads(toks) == LoadsMembers(toks, 2, <<>>).members

\* cli.py 77: the record is formatted as one line
FormatNdjsonLine ==
    /\ ndjson # <<>>
    /\ line = <<>>
    /\ line' = format_ndjson_line(ndjson)
    /\ UNCHANGED <<model_score, ndjson, pureVars, sessionVars, metricVars, netVars>>
    /\ UNCHANGED <<listVars, apiVars, pageVars>>

RecordNext == ToNdjsonDict \/ FormatNdjsonLine

RecordSpec == RecordInit /\ [][RecordNext]_vars

(***************************************************************************)
(* Metric calls on one shared context (PureSpec): repo_info is the mapping *)
(* score_model hands to every metric.compute; calls holds the latest call  *)
(* (last), an earlier call kept for comparison (ref), and whether a call   *)
(* of another class came after ref (mixed).                                *)
(***************************************************************************)
\* the metric classes: eight in CSCI461, seven in the second tree
Classes ==
    {<<"CSCI461", m>> : m \in MetricNames}
       \cup {<<"src", m>> : m \in MetricNames \ {"bus_factor"}}

\* metric.compute(repo_info) for the class (tree, m)
Compute(tree, m, ctx) ==
    IF tree = "CSCI461"
    THEN CASE m = "ramp_up_time" -> ramp_up_time(ctx)
           [] m = "bus_factor" -> bus_factor(ctx)
           [] m = "performance_claims" -> performance_claims(ctx)
           [] m = "license" -> license_metric(ctx)
           [] m = "size_score" -> size_score(ctx)
           [] m = "dataset_and_code_score" -> dataset_and_code_score(ctx)
           [] m = "dataset_quality" -> dataset_quality(ctx)
           [] m = "code_quality" -> code_quality(ctx)
    ELSE CASE m = "ramp_up_time" -> src_ramp_up_time(ctx)
           [] m = "performance_claims" -> src_performance_claims(ctx)
           [] m = "license" -> src_license(ctx)
           [] m = "size_score" -> src_size_score(ctx)
           [] m = "dataset_and_code_score" -> src_dataset_and_code_score(ctx)
           [] m = "dataset_quality" -> src_dataset_quality(ctx)
           [] m = "code_quality" -> src_code_quality(ctx)

\* the classes whose compute times itself and returns (score, latency_ms)
Timed(tree, m) == tree = "src" \/ m = "dataset_quality"

\* the `name` attribute of an instance of the class; reading it raises
\* AttributeError where the class body assigns none
NoAttribute == "<AttributeError>"
NameOf(tree, m) ==
    IF tree = "src" \/ m = "dataset_quality" THEN m ELSE NoAttribute

NoCalls == [ref |-> NoEval, last |-> NoEval, mixed |-> FALSE]

\* contexts with every key set, with no key, and with values of wrong types
PureContexts ==
    {EmptyCtx,
     [EmptyCtx EXCEPT !["hf_readme"] = PyStr(<<"Benchmark", "accuracy", "92.3%">>, 60),
                      !["license"] = PyStr(<<"MIT">>, 1),
                      !["git_contributors"] = PyInt(3),
                      !["weights_total_bytes"] = PyInt(300),
                      !["dataset_downloads"] = PyInt(1000),
                      !["dataset_link"] = PyStr(<<"https://hf.co/datasets/squad">>, 1),
                      !["example_code_present"] = PyBool(TRUE),
                      !["has_tests"] = PyBool(TRUE),
                      !["lint_warn"] = PyBool(TRUE)],
     [EmptyCtx EXCEPT !["hf_readme"] = PyStr(<<"usage", "dataset", "example code">>, 200),
                      !["git_contributors"] = PyInt(7),
                      !["weights_total_bytes"] = PyInt(7700),
                      !["dataset_downloads"] = PyInt(1),
                      !["dataset_link"] = PyStr(<<"https://hf.co/datasets/xy">>, 1),
                      !["code_link"] = PyStr(<<"https://github.com/org/repo">>, 1),
                      !["has_ci"] = PyBool(TRUE),
                      !["lint_ok"] = PyBool(TRUE)],
     [EmptyCtx EXCEPT !["hf_readme"] = PyNone,
                      !["license"] = PyInt(5),
                      !["git_contributors"] = PyNone,
                      !["weights_total_bytes"] = PyStr(<<"abc">>, 1),
                      !["dataset_downloads"] = PyNone,
                      !["has_tests"] = PyNone]}

PureInit ==
    /\ repo_info \in PureContexts
    /\ calls = NoCalls
    /\ model_score = NoRecord
    /\ ndjson = <<>>
    /\ line = <<>>
    /\ ListIdle
    /\ ApiIdle
    /\ PageIdle
    /\ SessionIdle

\* scorer.py 74-78: one metric.compute(repo_info); compute reads the mapping
\* through .get and assigns to no key and to no attribute
CallMetric ==
    \E cls \in Classes, lat \in SrcLatencies, keep \in BOOLEAN :
       LET e == EvaluationOf(cls[1], cls[2], repo_info,
                             Compute(cls[1], cls[2], repo_info),
                             IF Timed(cls[1], cls[2]) THEN PyInt(lat) ELSE PyNone)
       IN /\ calls' =
                [ref |-> IF calls.ref = NoEval /\ keep THEN e ELSE calls.ref,
                 last |-> e,
                 mixed |-> IF calls.ref = NoEval THEN FALSE
                           ELSE calls.mixed
                                   \/ <<calls.ref.tree, calls.ref.metric>> # cls]
          /\ repo_info' = repo_info
          /\ UNCHANGED <<recordVars, sessionVars, metricVars, netVars>>
          /\ UNCHANGED <<listVars, apiVars, pageVars>>

PureNext == CallMetric

PureSpec == PureInit /\ [][PureNext]_vars

(***************************************************************************)
(* process_url_list (ListSpec): urls is the argument, context the mapping  *)
(* of the most recent DATASET and CODE URLs, results the list returned,    *)
(* visited what the loop did with each URL it has passed.                  *)
(***************************************************************************)
MaxUrls == 3

DatasetUrl2 == <<"https://", "huggingface.co", "/", "datasets", "/", "xy">>
CodeUrl2 == <<"https://", "github.com", "/", "org", "/", "tool">>
ListUrls == Urls \cup {DatasetUrl2, CodeUrl2}

\* the empty string
NoLink == <<>>

\* classify_url(url): the category parse_url detects; it raises where
\* parse_url raises
classify_url(u) == parse_url(u)

\* context = {"dataset_link": "", "code_link": ""}
NewContext ==
    [dataset_link |-> NoLink, code_link |-> NoLink,
     example_code_present |-> Absent]

\* faulty variant: a link once set is kept, the first DATASET and the first
\* CODE URL win
UpdateContextKeepFirst(ctx, category, u) ==
    CASE category = "DATASET" /\ ctx.dataset_link = NoLink ->
            [ctx EXCEPT !.dataset_link = u]
      [] category = "CODE" /\ ctx.code_link = NoLink ->
            [ctx EXCEPT !.code_link = u, !.example_code_present = PyBool(TRUE)]
      [] OTHER -> ctx

\* the branches of the loop body that assign to context
UpdateContext(ctx, category, u) ==
    CASE category = "DATASET" -> [ctx EXCEPT !.dataset_link = u]
      [] category = "CODE" ->
            [ctx EXCEPT !.code_link = u, !.example_code_present = PyBool(TRUE)]
      [] OTHER -> ctx

\* what score_model(url, context) can do: return a ModelScore or raise.  It
\* copies related_context into the mapping fetch_repo_info returned
\* (repo_info.update) and assigns nothing to related_context.
ScoreModelOutcomes == {"returned", "raised"}

\* the ModelScore of the URL at position i, with the related context the
\* call was given
Scored(i, u, ctx) ==
    [index |-> i, url |-> u, name |-> parse_url(u).name, related |-> ctx]

\* faulty variant: the newest ModelScore is put in front
CollectNewestFirst(res, ms) == <<ms>> \o res

\* results.append(model_score)
Collect(res, ms) == Append(res, ms)

\* what the loop did with one URL: its category ("ERROR" when classify_url
\* raised) and how score_model ended ("none" when it was not called)
Visit(u, category, scored) == [url |-> u, category |-> category, scored |-> scored]

RECURSIVE SeqsUpTo(_, _)
SeqsUpTo(S, n) ==
    IF n = 0 THEN {<<>>}
    ELSE SeqsUpTo(S, n - 1)
            \cup {Append(q, x) : q \in {r \in SeqsUpTo(S, n - 1) : Len(r) = n - 1},
                                 x \in S}

ListInit ==
    /\ urls \in SeqsUpTo(ListUrls, MaxUrls)
    /\ context = NewContext
    /\ results = <<>>
    /\ visited = <<>>
    /\ model_score = NoRecord
    /\ ndjson = <<>>
    /\ line = <<>>
    /\ repo_info = <<>>
    /\ calls = <<>>
    /\ ApiIdle
    /\ PageIdle
    /\ SessionIdle

\* scorer.py 197-221: one iteration of the loop over urls
ProcessUrl ==
    /\ Len(visited) < Len(urls)
    /\ LET i == Len(visited) + 1
           u == urls[i]
           c == classify_url(u)
       IN IF c.raised
          THEN /\ visited' = Append(visited, Visit(u, "ERROR", "none"))
               /\ UNCHANGED <<context, results>>
          ELSE IF c.category = "MODEL"
          THEN \E o \in ScoreModelOutcomes :
                  /\ visited' = Append(visited, Visit(u, "MODEL", o))
                  /\ results' = IF o = "returned"
                                THEN Collect(results, Scored(i, u, context))
                                ELSE results
                  /\ context' = context
          ELSE /\ visited' = Append(visited, Visit(u, c.category, "none"))
               /\ context' = UpdateContext(context, c.category, u)
               /\ results' = results
    /\ UNCHANGED urls
    /\ UNCHANGED <<sessionVars, metricVars, netVars, recordVars, pureVars>>
    /\ UNCHANGED <<apiVars, pageVars>>

ListNext == ProcessUrl

ListSpec == ListInit /\ [][ListNext]_vars

(***************************************************************************)
(* The registry API of src/api/main.py (ApiSpec).  _artifacts_by_id is the *)
(* dict in insertion order, a sequence of stored artifacts;                *)
(* _artifact_id_by_type_and_url the dict as a set of (key, id) entries;    *)
(* response the answer to the latest request.  A handler has no await      *)
(* inside it, so it runs as one step.  created_at_ms is read by            *)
(* model_rate only and left out.                                           *)
(***************************************************************************)
ArtifactTypes == {"model", "dataset", "code"}
\* ids _new_artifact_id can hand out (ten digits), and the names and URLs of
\* the requests
ApiIds == {<<"0000000001">>, <<"0000000002">>}
UrlA == <<"https://", "huggingface.co", "/", "org", "/", "model-a">>
UrlB == <<"https://", "huggingface.co", "/", "org", "/", "model-b">>
NameA == <<"org", "/", "model-a">>
NameB == <<"org", "/", "model-b">>
Blank == <<" ">>
Padded(u) == <<" ">> \o u \o <<" ">>
BodyUrls == {UrlA, UrlB, Blank, Padded(UrlA), BareHostUrl}
BodyNames == {NameA, NameB}

\* str.strip()
RECURSIVE strip(_)
strip(u) ==
    IF u = <<>> THEN u
    ELSE IF Head(u) = " " THEN strip(Tail(u))
    ELSE IF u[Len(u)] = " " THEN strip(SubSeq(u, 1, Len(u) - 1))
    ELSE u

\* the X-Authorization header: absent, a bearer token, something else
NoHeader == ""
Headers == {NoHeader, "Bearer test-token", "token_user"}
\* _require_token returns (it raises 403 otherwise): the header is non-empty
\* and its lower-case form starts with "bearer "
_require_token(x) == x # NoHeader /\ x \in {"bearer test-token", "Bearer test-token"}

_StoredArtifact(id, type, name, u) == [id |-> id, type |-> type, name |-> name, url |-> u]
NoArtifact == [id |-> <<>>, type |-> "", name |-> <<>>, url |-> <<>>]

\* dict operations on _artifacts_by_id
StoredIds(store) == {store[i].id : i \in 1..Len(store)}
ById(store, id) ==
    IF id \in StoredIds(store)
    THEN store[CHOOSE i \in 1..Len(store) : store[i].id = id]
    ELSE NoArtifact
Put(store, a) ==
    IF a.id \in StoredIds(store)
    THEN [i \in 1..Len(store) |-> IF store[i].id = a.id THEN a ELSE store[i]]
    ELSE Append(store, a)
Pop(store, id) == SelectSeq(store, LAMBDA a : a.id # id)

\* dict operations on _artifact_id_by_type_and_url
Key(type, u) == <<type, u>>
Entry(key, id) == [key |-> key, id |-> id]
HasKey(index, key) == \E e \in index : e.key = key
IndexPop(index, key) == {e \in index : e.key # key}
IndexSet(index, key, id) == IndexPop(index, key) \cup {Entry(key, id)}

\* faulty variant: the entry of the old key is left in the index
ReindexKeepOld(index, old_key, new_key, id) == IndexSet(index, new_key, id)

\* artifact_update 442-443: pop(old_key), then index[new_key] = id
Reindex(index, old_key, new_key, id) ==
    IndexSet(IndexPop(index, old_key), new_key, id)

Response(op, status, request, body) ==
    [op |-> op, status |-> status, request |-> request, body |-> body]
NoBody == <<>>

\* the bodies of PUT /authenticate: the default administrator of the OpenAPI
\* description, another user, and a body without the secret
Credentials ==
    {[user |-> "ece30861defaultadminuser", password |-> "correcthorsebatterystaple123", wellformed |-> TRUE],
     [user |-> "wrong", password |-> "nope", wellformed |-> TRUE],
     [user |-> "x", password |-> "", wellformed |-> FALSE]}

\* authenticate: a body that fails validation is answered 400 by the
\* RequestValidationError handler; every other body gets the token
Authenticate ==
    /\ \E req \in Credentials :
          response' = IF req.wellformed
                      THEN Response("authenticate", 200, req, "bearer test-token")
                      ELSE Response("authenticate", 400, req, NoBody)
    /\ UNCHANGED <<_artifacts_by_id, _artifact_id_by_type_and_url>>
    /\ UNCHANGED <<sessionVars, metricVars, netVars, recordVars, pureVars>>
    /\ UNCHANGED <<listVars, pageVars>>

\* reset
Reset ==
    /\ \E tok \in Headers :
          IF ~_require_token(tok)
          THEN /\ response' = Response("reset", 403, NoBody, NoBody)
               /\ UNCHANGED <<_artifacts_by_id, _artifact_id_by_type_and_url>>
          ELSE /\ _artifacts_by_id' = <<>>
               /\ _artifact_id_by_type_and_url' = {}
               /\ response' = Response("reset", 200, NoBody, NoBody)
    /\ UNCHANGED <<sessionVars, metricVars, netVars, recordVars, pureVars>>
    /\ UNCHANGED <<listVars, pageVars>>

\* artifact_create.  _new_artifact_id draws ids until one is not a key of
\* _artifacts_by_id; an IndexError of parse_url leaves the handler before
\* anything is stored and is answered 500.
ArtifactCreate ==
    /\ \E tok \in Headers :
          IF ~_require_token(tok)
          THEN /\ response' = Response("create", 403, NoBody, NoBody)
               /\ UNCHANGED <<_artifacts_by_id, _artifact_id_by_type_and_url>>
          ELSE \E artifact_type \in ArtifactTypes, body_url \in BodyUrls :
                  LET u == strip(body_url)
                      key == Key(artifact_type, u)
                      req == [type |-> artifact_type, url |-> body_url]
                  IN IF u = <<>>
                     THEN /\ response' = Response("create", 400, req, NoBody)
                          /\ UNCHANGED <<_artifacts_by_id, _artifact_id_by_type_and_url>>
                     ELSE IF HasKey(_artifact_id_by_type_and_url, key)
                     THEN /\ response' = Response("create", 409, req, NoBody)
                          /\ UNCHANGED <<_artifacts_by_id, _artifact_id_by_type_and_url>>
                     ELSE IF parse_url(u).raised
                     THEN /\ response' = Response("create", 500, req, NoBody)
                          /\ UNCHANGED <<_artifacts_by_id, _artifact_id_by_type_and_url>>
                     ELSE \E artifact_id \in ApiIds \ StoredIds(_artifacts_by_id) :
                             LET a == _StoredArtifact(artifact_id, artifact_type,
                                                      parse_url(u).name, u)
                             IN /\ _artifacts_by_id' = Put(_artifacts_by_id, a)
                                /\ _artifact_id_by_type_and_url' =
                                      IndexSet(_artifact_id_by_type_and_url, key, artifact_id)
                                /\ response' = Response("create", 201, req, a)
    /\ UNCHANGED <<sessionVars, metricVars, netVars, recordVars, pureVars>>
    /\ UNCHANGED <<listVars, pageVars>>

\* artifact_retrieve
ArtifactRetrieve ==
    /\ \E tok \in Headers :
          IF ~_require_token(tok)
          THEN response' = Response("retrieve", 403, NoBody, NoBody)
          ELSE \E artifact_type \in ArtifactTypes, id \in ApiIds :
                  LET a == ById(_artifacts_by_id, id)
                      req == [type |-> artifact_type, id |-> id]
                  IN response' = IF a = NoArtifact \/ a.type # artifact_type
                                 THEN Response("retrieve", 404, req, NoBody)
                                 ELSE Response("retrieve", 200, req, a)
    /\ UNCHANGED <<_artifacts_by_id, _artifact_id_by_type_and_url>>
    /\ UNCHANGED <<sessionVars, metricVars, netVars, recordVars, pureVars>>
    /\ UNCHANGED <<listVars, pageVars>>

\* artifact_update
ArtifactUpdate ==
    /\ \E tok \in Headers :
          IF ~_require_token(tok)
          THEN /\ response' = Response("update", 403, NoBody, NoBody)
               /\ UNCHANGED <<_artifacts_by_id, _artifact_id_by_type_and_url>>
          ELSE \E artifact_type \in ArtifactTypes, id \in ApiIds,
                  body_id \in ApiIds, body_type \in ArtifactTypes :
                  LET existing == ById(_artifacts_by_id, id)
                      req == [type |-> artifact_type, id |-> id]
                  IN IF body_id # id \/ body_type # artifact_type
                     THEN /\ response' = Response("update", 400, req, NoBody)
                          /\ UNCHANGED <<_artifacts_by_id, _artifact_id_by_type_and_url>>
                     ELSE IF existing = NoArtifact
                     THEN /\ response' = Response("update", 404, req, NoBody)
                          /\ UNCHANGED <<_artifacts_by_id, _artifact_id_by_type_and_url>>
                     ELSE \E body_name \in BodyNames, body_url \in BodyUrls :
                        LET new_url == strip(body_url)
                            old_key == Key(existing.type, existing.url)
                            new_key == Key(artifact_type, new_url)
                        IN IF new_url = <<>>
                           THEN /\ response' = Response("update", 400, req, NoBody)
                                /\ UNCHANGED <<_artifacts_by_id, _artifact_id_by_type_and_url>>
                           ELSE IF new_key # old_key
                                   /\ HasKey(_artifact_id_by_type_and_url, new_key)
                           THEN /\ response' = Response("update", 409, req, NoBody)
                                /\ UNCHANGED <<_artifacts_by_id, _artifact_id_by_type_and_url>>
                           ELSE /\ _artifact_id_by_type_and_url' =
                                      Reindex(_artifact_id_by_type_and_url,
                                              old_key, new_key, id)
                                /\ _artifacts_by_id' =
                                      Put(_artifacts_by_id,
                                          _StoredArtifact(id, artifact_type,
                                                          body_name, new_url))
                                /\ response' = Response("update", 200, req, NoBody)
    /\ UNCHANGED <<sessionVars, metricVars, netVars, recordVars, pureVars>>
    /\ UNCHANGED <<listVars, pageVars>>

\* artifact_delete
ArtifactDelete ==
    /\ \E tok \in Headers :
          IF ~_require_token(tok)
          THEN /\ response' = Response("delete", 403, NoBody, NoBody)
               /\ UNCHANGED <<_artifacts_by_id, _artifact_id_by_type_and_url>>
          ELSE \E artifact_type \in ArtifactTypes, id \in ApiIds :
                  LET a == ById(_artifacts_by_id, id)
                      req == [type |-> artifact_type, id |-> id]
                  IN IF a = NoArtifact \/ a.type # artifact_type
                     THEN /\ response' = Response("delete", 404, req, NoBody)
                          /\ UNCHANGED <<_artifacts_by_id, _artifact_id_by_type_and_url>>
                     ELSE /\ _artifacts_by_id' = Pop(_artifacts_by_id, id)
                          /\ _artifact_id_by_type_and_url' =
                                IndexPop(_artifact_id_by_type_and_url, Key(a.type, a.url))
                          /\ response' = Response("delete", 200, req, NoBody)
    /\ UNCHANGED <<sessionVars, metricVars, netVars, recordVars, pureVars>>
    /\ UNCHANGED <<listVars, pageVars>>

\* _hash_id(seed): an id derived from the seed, here the seed itself behind a
\* tag (ten digits of a SHA-256, taken as different from the ids in ApiIds)
_hash_id(seed) == <<"sha256">> \o seed

\* faulty variant: no ingested artifact is ever found
_find_ingested_artifact_id_by_name_none(store, artifact_type, name) == <<>>

\* _find_ingested_artifact_id_by_name: the id of the first stored artifact of
\* this type and name, None (here the empty id) when there is none
_find_ingested_artifact_id_by_name(store, artifact_type, name) ==
    LET hits == {i \in 1..Len(store) :
                    store[i].type = artifact_type /\ store[i].name = name}
    IN IF hits = {} THEN <<>>
       ELSE store[CHOOSE i \in hits : \A j \in hits : i <= j].id

Node(artifact_id, name) == [artifact_id |-> artifact_id, name |-> name]
Edge(from, to, relationship) ==
    [from_node_artifact_id |-> from, to_node_artifact_id |-> to,
     relationship |-> relationship]

\* nodes.setdefault(id, node)
SetDefault(nodes, node) ==
    IF \E i \in 1..Len(nodes) : nodes[i].artifact_id = node.artifact_id
    THEN nodes ELSE Append(nodes, node)

\* the two loops of _lineage_for_model_url over the names of one kind, from
\* name i on
RECURSIVE AddDependencies(_, _, _, _, _, _, _)
AddDependencies(graph, store, names, i, artifact_type, relationship, root) ==
    IF i > Len(names) THEN graph
    ELSE LET real == _find_ingested_artifact_id_by_name(store, artifact_type, names[i])
             dep_id == IF real # <<>> THEN real
                       ELSE _hash_id(<<artifact_type, ":">> \o names[i])
         IN AddDependencies(
               [nodes |-> SetDefault(graph.nodes, Node(dep_id, names[i])),
                edges |-> Append(graph.edges, Edge(dep_id, root, relationship))],
               store, names, i + 1, artifact_type, relationship, root)

\* what huggingface_hub.model_info(model_id).to_dict() can give: a failure, or
\* card data with base models and datasets
CardFailure == [raised |-> TRUE, base_models |-> <<>>, datasets |-> <<>>]
Card(base_models, datasets) ==
    [raised |-> FALSE, base_models |-> base_models, datasets |-> datasets]
Cards ==
    {CardFailure, Card(<<>>, <<>>), Card(<<NameA>>, <<>>), Card(<<NameB>>, <<>>),
     Card(<<NameA, NameB>>, <<<<"squad">>>>)}

\* _lineage_for_model_url, after the root node: everything inside the try
_lineage_for_model_url(store, root_artifact_id, u, card) ==
    LET root == [nodes |-> <<Node(root_artifact_id, parse_url(u).name)>>,
                 edges |-> <<>>]
    IN IF AfterHostSlash(u, "huggingface.co") = 0 \/ card.raised THEN root
       ELSE AddDependencies(
               AddDependencies(root, store, card.base_models, 1, "model",
                               "base_model", root_artifact_id),
               store, card.datasets, 1, "dataset", "fine_tuning_dataset",
               root_artifact_id)

\* model_lineage.  _parse_name runs before the try of
\* _lineage_for_model_url, its IndexError is answered 500.
ModelLineage ==
    /\ \E tok \in Headers :
          IF ~_require_token(tok)
          THEN response' = Response("lineage", 403, NoBody, NoBody)
          ELSE \E id \in ApiIds, card \in Cards :
                  LET a == ById(_artifacts_by_id, id)
                      req == [id |-> id, card |-> card]
                  IN response' =
                        IF a = NoArtifact \/ a.type # "model"
                        THEN Response("lineage", 404, req, NoBody)
                        ELSE IF parse_url(a.url).raised
                        THEN Response("lineage", 500, req, NoBody)
                        ELSE Response("lineage", 200, req,
                                      _lineage_for_model_url(_artifacts_by_id,
                                                             id, a.url, card))
    /\ UNCHANGED <<_artifacts_by_id, _artifact_id_by_type_and_url>>
    /\ UNCHANGED <<sessionVars, metricVars, netVars, recordVars, pureVars>>
    /\ UNCHANGED <<listVars, pageVars>>

ApiInit ==
    /\ _artifacts_by_id = <<>>
    /\ _artifact_id_by_type_and_url = {}
    /\ response = <<>>
    /\ model_score = NoRecord
    /\ ndjson = <<>>
    /\ line = <<>>
    /\ repo_info = <<>>
    /\ calls = <<>>
    /\ ListIdle
    /\ PageIdle
    /\ SessionIdle

ApiNext ==
    \/ Authenticate
    \/ Reset
    \/ ArtifactCreate
    \/ ArtifactRetrieve
    \/ ArtifactUpdate
    \/ ArtifactDelete
    \/ ModelLineage

ApiSpec == ApiInit /\ [][ApiNext]_vars

(***************************************************************************)
(* Paging through POST /artifacts (PageSpec).  ordered is the sorted       *)
(* result list of the queries over a store that does not change, its items *)
(* named by their rank; listing is the latest answer together with the     *)
(* pages a client has collected since it last started at offset 0 (walk:   *)
(* the number of requests of that walk, 0 when the client left it).        *)
(***************************************************************************)
MaxItems == 21
page_size == 10

\* the offset query parameter: absent, or a string (empty, digits with an
\* optional sign, other text)
NoOffset == [kind |-> "none", n |-> 0]
EmptyOffset == [kind |-> "empty", n |-> 0]
TextOffset == [kind |-> "text", n |-> 0]
\* str(n)
StrOfInt(x) == [kind |-> "digits", n |-> x]

\* off = 0; if offset: try: off = int(offset) except Exception: off = 0
OffsetOf(offset) == IF offset.kind = "digits" THEN offset.n ELSE 0

\* items[a : b] for 0 <= a
Slice(s, a, b) == SubSeq(s, a + 1, IF b <= Len(s) THEN b ELSE Len(s))

\* faulty variant: "0" only when the next offset is past the end
_paginate_past_end(its, offset, size) ==
    LET off == IF offset < 0 \/ offset > Len(its) THEN 0 ELSE offset
        page == Slice(its, off, off + size)
        next_offset == off + Len(page)
    IN IF next_offset > Len(its)
       THEN [page |-> page, next |-> StrOfInt(0)]
       ELSE [page |-> page, next |-> StrOfInt(next_offset)]

_paginate(its, offset, size) ==
    LET off == IF offset < 0 \/ offset > Len(its) THEN 0 ELSE offset
        page == Slice(its, off, off + size)
        next_offset == off + Len(page)
    IN IF next_offset >= Len(its)
       THEN [page |-> page, next |-> StrOfInt(0)]
       ELSE [page |-> page, next |-> StrOfInt(next_offset)]

NoListing ==
    [status |-> 0, offset |-> NoOffset, page |-> <<>>, next |-> NoOffset,
     fetched |-> <<>>, walk |-> 0]

\* the offsets a client can send: none, "", "abc", "-1", "5", "99", and the
\* offset header of the latest answer
Offsets(l) ==
    {NoOffset, EmptyOffset, TextOffset, StrOfInt(0 - 1), StrOfInt(5), StrOfInt(99)}
       \cup (IF l.status = 200 THEN {l.next} ELSE {})

PageInit ==
    /\ \E n \in 0..MaxItems : ordered = [i \in 1..n |-> i]
    /\ listing = NoListing
    /\ model_score = NoRecord
    /\ ndjson = <<>>
    /\ line = <<>>
    /\ repo_info = <<>>
    /\ calls = <<>>
    /\ ListIdle
    /\ ApiIdle
    /\ SessionIdle

\* artifacts_list: the token check, the check of the queries, and lines
\* 356-366 on the sorted list
ArtifactsList ==
    /\ \E tok \in Headers, queries \in {"none", "some"} :
          IF ~_require_token(tok)
          THEN listing' = [NoListing EXCEPT !.status = 403]
          ELSE IF queries = "none"
          THEN listing' = [NoListing EXCEPT !.status = 400]
          ELSE \E offset \in Offsets(listing) :
                  LET off == OffsetOf(offset)
                      res == _paginate(ordered, off, page_size)
                      follows == /\ listing.walk > 0
                                 /\ listing.next # StrOfInt(0)
                                 /\ offset = listing.next
                  IN listing' =
                        [status |-> 200, offset |-> offset,
                         page |-> res.page, next |-> res.next,
                         fetched |-> IF off = 0 THEN res.page
                                     ELSE IF follows THEN listing.fetched \o res.page
                                     ELSE <<>>,
                         walk |-> IF off = 0 THEN 1
                                  ELSE IF follows THEN listing.walk + 1
                                  ELSE 0]
    /\ UNCHANGED ordered
    /\ UNCHANGED <<sessionVars, metricVars, netVars, recordVars, pureVars>>
    /\ UNCHANGED <<listVars, apiVars>>

PageNext == ArtifactsList

PageSpec == PageInit /\ [][PageNext]_vars

(***************************************************************************)
(* Properties of a scoring session (Spec)                                  *)
(***************************************************************************)

\* C1: score_model never raises: whatever the URL and whatever each metric's
\* compute does, the session ends with a ModelScore, never with an exception.
C1_ScoreModelNeverRaises == pc # "raised"

\* the record entry of metric j is what j's compute returned
HoldsReturned(j) ==
    /\ returned[j].kind = "pair"
    /\ IF j = "size_score"
       THEN record[j] = returned[j].value
       ELSE record[j] = FloatOf(returned[j].value)
    /\ record[LatencyKey(j)] = IntOf(returned[j].latency)

\* the record entry of metric i is the degraded default
HoldsDefault(i) ==
    /\ IF i = "size_score"
       THEN record[i] = EmptyDict
       ELSE record[i] = 0
    /\ record[LatencyKey(i)] = 0

\* C2: a metric failure is isolated: when metric i raised in compute and the
\* session has ended, every other metric j has been evaluated exactly once, and
\* a returned record holds j's returned value and latency and i's default.
C2_FailureIsolated ==
    \A i \in MetricNames :
       (pc \in {"done", "raised"} /\ returned[i].kind = "raise") =>
          /\ \A j \in MetricNames \ {i} : evalCount[j] = 1
          /\ pc = "done" =>
                /\ HoldsDefault(i)
                /\ \A j \in MetricNames \ {i} :
                      returned[j].kind = "pair" => HoldsReturned(j)

\* C5: the size_score mapping of every returned ModelScore, and of every value
\* SizeScoreMetric returns, has exactly the four tier names as its keys.
C5_SizeScoreFourTiers ==
    /\ pc = "done" =>
          (record.size_score.t = "dict" /\ KeySet(record.size_score) = Tiers)
    /\ (mcur # <<>> /\ mcur.metric = "size_score" /\ ~mcur.raised) =>
          (mcur.value.t = "dict" /\ KeySet(mcur.value) = Tiers)

\* C9: the aggregator is invoked only after all eight metrics of the session
\* have finished, each with a stored result or a substituted default.
C9_AggregateAfterAllMetrics ==
    aggSeen.called =>
       /\ aggSeen.evaluated = MetricNames
       /\ \A m \in MetricNames :
             /\ metric_results[m].t # "absent"
             /\ metric_results[LatencyKey(m)].t # "absent"

\* a session in which a metric raised, its default was substituted and the
\* aggregator then ran
C9_Witness ==
    /\ aggSeen.called
    /\ pc = "build"
    /\ \E m \in MetricNames :
          returned[m].kind = "raise" /\ metric_results[m] = DefaultValue(m)

(***************************************************************************)
(* Properties of _compute_net_score (NetSpec)                              *)
(***************************************************************************)
Computed == nres # <<>>

\* C6: the net score lies in [0,1] for every metric_results mapping, also with
\* values outside [0,1] or missing.
C6_NetScoreInUnitInterval ==
    Computed => (0 <= nres.net /\ nres.net <= NetDen)

\* a call whose unclamped weighted sum is outside [0,1]
C6_Witness ==
    /\ Computed
    /\ ~NetRaises(nmr)
    /\ nmr["ramp_up_time"] \in {Num(-500), Num(1500)}
    /\ (WeightedSum(nmr, 1) < 0 \/ WeightedSum(nmr, 1) > NetDen)

\* every metric value is a float in [0,1] and size_score has the four tiers
InUnitInterval(mr) ==
    /\ \A k \in ScalarNames :
          mr[k].t = "num" /\ 0 <= mr[k].n /\ mr[k].n <= 1000
    /\ mr["size_score"].t = "dict"
    /\ Len(mr["size_score"].d) = 4
    /\ KeySet(mr["size_score"]) = Tiers
    /\ \A i \in 1..4 :
          /\ mr["size_score"].d[i].num
          /\ 0 <= mr["size_score"].d[i].v
          /\ mr["size_score"].d[i].v <= 1000

\* C7: for values in [0,1] the net score is 0.20*ramp_up_time + 0.20*license
\* + 0.15*dataset_and_code_score + 0.10*mean(size tiers) + 0.10*bus_factor
\* + 0.10*dataset_quality + 0.10*code_quality + 0.05*performance_claims; the
\* weight vector has exactly the eight metric names and sums to 1.0.
\* (Numerators over NetDen = 100 * 12 * 1000; the mean of four tiers times 12
\* is 3 times their sum.)
C7_WeightedSumFormula ==
    /\ {WeightOrder[i] : i \in 1..Len(WeightOrder)} = MetricNames
    /\ Len(WeightOrder) = Cardinality(MetricNames)
    /\ weights("ramp_up_time") + weights("license")
         + weights("dataset_and_code_score") + weights("size_score")
         + weights("bus_factor") + weights("dataset_quality")
         + weights("code_quality") + weights("performance_claims") = 100
    /\ (Computed /\ InUnitInterval(nmr)) =>
          nres.net = 20 * 12 * nmr["ramp_up_time"].n
                     + 20 * 12 * nmr["license"].n
                     + 15 * 12 * nmr["dataset_and_code_score"].n
                     + 10 * 3 * SumItems(nmr["size_score"].d, 1)
                     + 10 * 12 * nmr["bus_factor"].n
                     + 10 * 12 * nmr["dataset_quality"].n
                     + 10 * 12 * nmr["code_quality"].n
                     + 5 * 12 * nmr["performance_claims"].n

\* a call on in-range values whose net score is strictly between 0 and 1
C7_Witness ==
    /\ Computed
    /\ InUnitInterval(nmr)
    /\ nmr["ramp_up_time"] = Num(250)
    /\ nmr["performance_claims"] = Num(1000)
    /\ 0 < nres.net /\ nres.net < NetDen

\* size_score is absent, an empty mapping or not a mapping
NoSizeInfo(mr) ==
    \/ mr["size_score"].t # "dict"
    \/ Len(mr["size_score"].d) = 0
\* the value of a scalar metric in the weighted sum, 0.0 for an absent key
ScalarTerm(mr, k) == IF mr[k].t = "absent" THEN 0 ELSE FloatOf(mr[k])
\* every scalar metric is absent or a number
ScalarsNumeric(mr) ==
    \A k \in ScalarNames : mr[k].t = "absent" \/ IsNumeric(mr[k])
\* the weighted sum of the seven scalar metrics, over NetDen
ScalarSum(mr) ==
    20 * 12 * ScalarTerm(mr, "ramp_up_time")
    + 20 * 12 * ScalarTerm(mr, "license")
    + 15 * 12 * ScalarTerm(mr, "dataset_and_code_score")
    + 10 * 12 * ScalarTerm(mr, "bus_factor")
    + 10 * 12 * ScalarTerm(mr, "dataset_quality")
    + 10 * 12 * ScalarTerm(mr, "code_quality")
    + 5 * 12 * ScalarTerm(mr, "performance_claims")

\* C27: when size_score is absent, an empty mapping or not a mapping, the size
\* term of the weighted sum is the scalar 1.0 with its weight 0.10: the net
\* score is the clamped sum of the scalar terms plus 0.10, so it is at least
\* 0.10 when no scalar is negative, and it is not the failure value 0.0.
C27_SizeDefaultsToOne ==
    (Computed /\ NoSizeInfo(nmr) /\ ScalarsNumeric(nmr)) =>
       /\ nres.net = Max(0, Min(NetDen, ScalarSum(nmr) + 10 * 12 * 1000))
       /\ (\A k \in ScalarNames : ScalarTerm(nmr, k) >= 0)
             => nres.net >= 10 * 12 * 1000

\* a call with the empty mapping score_model substitutes for a failed size
\* metric and every scalar at 0.0: the net score is exactly 0.10
C27_Witness ==
    /\ Computed
    /\ nmr["size_score"] = EmptyDict
    /\ ScalarsNumeric(nmr)
    /\ ScalarSum(nmr) = 0
    /\ nres.net = 10 * 12 * 1000

\* the failures the claim names: a scalar value float() rejects, or tier
\* values that sum() cannot add
FailsInternally(mr) ==
    \/ \E k \in ScalarNames : mr[k].t \in {"none", "str", "dict"}
    \/ /\ mr["size_score"].t = "dict"
       /\ \E i \in 1..Len(mr["size_score"].d) : ~mr["size_score"].d[i].num

\* C8: _compute_net_score never raises; when the weighted sum fails
\* internally it returns net score 0.0 together with a latency.
C8_NetScoreNeverRaises ==
    Computed =>
       /\ ~nres.raised
       /\ nres.latency \in Nat
       /\ FailsInternally(nmr) => nres.net = 0

\* a call in which the weighted sum failed
C8_Witness ==
    /\ Computed
    /\ FailsInternally(nmr)
    /\ nres.net = 0
    /\ ~nres.raised

(***************************************************************************)
(* Properties of the metric classes (MetricSpec)                           *)
(***************************************************************************)
Evaluated(m) == mcur # NoEval /\ mcur.tree = "CSCI461" /\ mcur.metric = m
EvaluatedIn(tree, m) == mcur # NoEval /\ mcur.tree = tree /\ mcur.metric = m

\* C3: no metric propagates an exception out of its evaluation, whatever the
\* context holds (absent keys, None, values of the wrong type).
C3_MetricsNeverRaise == mcur # NoEval => ~mcur.raised

\* C4: every scalar score a metric returns lies in [0,1], and so does each of
\* the size_score tier values.
C4_ScoresInUnitInterval ==
    (mcur # NoEval /\ ~mcur.raised) =>
       IF mcur.metric = "size_score"
       THEN \A i \in 1..Len(mcur.value.d) :
               0 <= mcur.value.d[i].v /\ mcur.value.d[i].v <= 1000
       ELSE 0 <= mcur.value.n /\ mcur.value.n <= 1000

IntCount(e) == e.ctx["git_contributors"].t = "int"

\* C10: bus_factor is non-decreasing in the integer contributor count
\* (0 and negative counts included) and is never below 0.1.
C10_BusFactorMonotone ==
    /\ (Evaluated("bus_factor") /\ ~mcur.raised) => mcur.value.n >= 100
    /\ (Evaluated("bus_factor") /\ mprev # NoEval /\ IntCount(mcur)
          /\ IntCount(mprev)
          /\ mprev.ctx["git_contributors"].n <= mcur.ctx["git_contributors"].n)
       => (~mcur.raised /\ ~mprev.raised /\ mprev.value.n <= mcur.value.n)

\* two evaluations on the ramp: a count at the floor, then a larger count
\* with a larger score
C10_Witness ==
    /\ Evaluated("bus_factor")
    /\ mprev # NoEval
    /\ mprev.ctx["git_contributors"] = PyInt(0)
    /\ mcur.ctx["git_contributors"] = PyInt(3)
    /\ mprev.value = Num(100)
    /\ mcur.value = Num(600)

\* C11: bus_factor is 0.1 for every count <= 1, 1.0 for every count >= 5, and
\* from 1 to 5 contributors it is the straight line from 0.1 to 1.0: each
\* additional contributor adds the same amount, a quarter of 0.9.
C11_BusFactorLinearRamp ==
    /\ (Evaluated("bus_factor") /\ IntCount(mcur)) =>
          /\ ~mcur.raised
          /\ mcur.ctx["git_contributors"].n <= 1 => mcur.value.n = 100
          /\ mcur.ctx["git_contributors"].n >= 5 => mcur.value.n = 1000
    /\ (Evaluated("bus_factor") /\ mprev # NoEval /\ IntCount(mcur)
          /\ IntCount(mprev)
          /\ 1 <= mprev.ctx["git_contributors"].n
          /\ mcur.ctx["git_contributors"].n <= 5
          /\ mcur.ctx["git_contributors"].n = mprev.ctx["git_contributors"].n + 1)
       => 4 * (mcur.value.n - mprev.value.n) = 1000 - 100

\* C12: on each tier with threshold T, size_score is 1.0 up to T, 0 from 10*T
\* on, and in between on the straight line from 1.0 at T to 0 at 10*T (to the
\* thousandth); 10 MiB scores 1.0 on all four tiers.
C12_SizeScoreDecay ==
    (Evaluated("size_score") /\ mcur.ctx["weights_total_bytes"].t = "int") =>
       /\ ~mcur.raised
       /\ \A i \in 1..Len(TierOrder) :
             LET T == thresholds(TierOrder[i])
                 total == mcur.ctx["weights_total_bytes"].n
                 v == mcur.value.d[i].v
             IN /\ mcur.value.d[i].k = TierOrder[i]
                /\ total <= T => v = 1000
                /\ total >= 10 * T => v = 0
                /\ (T < total /\ total < 10 * T) =>
                      /\ v * 9 * T <= 1000 * (10 * T - total)
                      /\ 1000 * (10 * T - total) < (v + 1) * 9 * T

(***************************************************************************)
(* Properties of the metric classes of both trees (TreesSpec)              *)
(***************************************************************************)
\* a dataset_quality evaluation, of either tree, on an integer download count
\* or on a context without the key
DownloadsOf(e) ==
    IF e.ctx["dataset_downloads"].t = "absent" THEN 0
    ELSE e.ctx["dataset_downloads"].n
CountedDownloads(e) ==
    /\ e # NoEval
    /\ e.metric = "dataset_quality"
    /\ e.ctx["dataset_downloads"].t \in {"int", "absent"}

\* C13: dataset_quality is non-decreasing in dataset_downloads and never
\* below its floor: a count d >= 0 scores at least what 0 scores, and 0 or an
\* absent key returns that floor without error.
C13_DatasetQualityMonotone ==
    /\ CountedDownloads(mcur) => ~mcur.raised
    /\ (CountedDownloads(mcur) /\ CountedDownloads(mprev)
          /\ mprev.tree = mcur.tree
          /\ DownloadsOf(mprev) <= DownloadsOf(mcur))
       => mprev.value.n <= mcur.value.n
    /\ (CountedDownloads(mcur) /\ CountedDownloads(mprev)
          /\ mprev.tree = mcur.tree
          /\ DownloadsOf(mprev) = 0 /\ DownloadsOf(mcur) = 0)
       => mprev.value.n = mcur.value.n

\* C14: for every context, dataset_and_code_score (either tree) returns one of
\* 0.0, 0.5 and 1.0.
C14_DatasetAndCodeScoreValues ==
    (mcur # NoEval /\ mcur.metric = "dataset_and_code_score") =>
       /\ ~mcur.raised
       /\ mcur.value.t = "num"
       /\ mcur.value.n \in {0, 500, 1000}

\* a second-tree evaluation with a dataset link named in the README and no
\* code: half credit
C14_Witness ==
    /\ EvaluatedIn("src", "dataset_and_code_score")
    /\ Truthy(mcur.ctx["dataset_link"])
    /\ ~Truthy(mcur.ctx["code_link"])
    /\ ~Truthy(mcur.ctx["example_code_present"])
    /\ mcur.ctx["hf_readme"].t = "str"
    /\ mcur.value = Num(500)

\* a dataset or code resource is present in the context
DatasetPresent(c) == Truthy(c["dataset_link"])
CodePresent(c) == Truthy(c["code_link"]) \/ Truthy(c["example_code_present"])
\* the README text of a context, empty when there is none
ReadmeText(c) ==
    IF c["hf_readme"].t = "str" THEN Lower(c["hf_readme"]) ELSE EmptyStr
\* the README refers to the resource: by its link or the link's name, or by
\* a word for datasets or for example code
DatasetReferenced(c) ==
    \/ mentioned(LinkOrEmpty(c, "dataset_link"), ReadmeText(c))
    \/ \E k \in {"dataset", "training data", "train data", "data source"} :
          InText(k, ReadmeText(c))
CodeReferenced(c) ==
    \/ mentioned(LinkOrEmpty(c, "code_link"), ReadmeText(c))
    \/ \E k \in {"example code", "code example", "sample code",
                 "usage example", "training code", "inference code"} :
          InText(k, ReadmeText(c))
\* the number of resources that are present and referenced
Credited(c) ==
    (IF DatasetPresent(c) /\ DatasetReferenced(c) THEN 1 ELSE 0)
       + (IF CodePresent(c) /\ CodeReferenced(c) THEN 1 ELSE 0)

\* C15: dataset_and_code_score (either tree) is 1.0 exactly when a dataset and
\* a code resource are both present and both referenced in the README, 0.5
\* when exactly one is present and referenced, and 0.0 otherwise: a resource
\* the README does not refer to earns nothing.
C15_CreditOnlyWhenReferenced ==
    (mcur # NoEval /\ mcur.metric = "dataset_and_code_score") =>
       /\ ~mcur.raised
       /\ mcur.value.n = 500 * Credited(mcur.ctx)

\* what a README text holds: a benchmark word, a metric word, a percentage or
\* decimal number
BenchmarkWord(x) ==
    \E k \in {"benchmark", "benchmarks", "leaderboard", "sota"} : InText(k, x)
MetricWord(x) ==
    \E k \in {"accuracy", "f1", "bleu", "rouge", "perplexity", "mmlu",
              "hellaswag", "truthfulqa", "precision", "recall", "auc"} :
       InText(k, x)
NumericPattern(x) == HasNumbers(x)

\* C16: performance_claims (either tree) is 1.0 if and only if the README
\* holds a benchmark word, a metric word and a numeric pattern together; any
\* weaker combination scores below 1.0, none of the three scores 0.0, and the
\* README "benchmark ... accuracy ... 92.3%" scores 1.0.
C16_FullCreditNeedsAllThree ==
    (mcur # NoEval /\ mcur.metric = "performance_claims"
        /\ mcur.ctx["hf_readme"].t \in {"str", "absent"}) =>
       LET text == ReadmeText(mcur.ctx)
           all == BenchmarkWord(text) /\ MetricWord(text) /\ NumericPattern(text)
           none == ~BenchmarkWord(text) /\ ~MetricWord(text)
                      /\ ~NumericPattern(text)
       IN /\ ~mcur.raised
          /\ 0 <= mcur.value.n /\ mcur.value.n <= 1000
          /\ (mcur.value.n = 1000) <=> all
          /\ none => mcur.value.n = 0
          /\ mcur.ctx["hf_readme"] = PyStr(<<"Benchmark", "accuracy", "92.3%">>, 60)
                => mcur.value.n = 1000

\* the tier values of a size_score mapping, in the order of TierOrder
TierValues(v) == [i \in 1..Len(v.d) |-> v.d[i].v]

\* C18: on the empty context {} no metric (of either tree) raises, bus_factor
\* is 0.1, ramp_up_time is 0.0 and size_score is the default four-tier mapping
\* of its class.
C18_EmptyContextDefaults ==
    (mcur # NoEval /\ mcur.ctx = EmptyCtx) =>
       /\ ~mcur.raised
       /\ mcur.metric = "bus_factor" => mcur.value = Num(100)
       /\ mcur.metric = "ramp_up_time" => mcur.value = Num(0)
       /\ mcur.metric = "size_score" =>
             /\ mcur.value.t = "dict"
             /\ [i \in 1..Len(mcur.value.d) |-> mcur.value.d[i].k] = TierOrder
             /\ TierValues(mcur.value) =
                   IF mcur.tree = "CSCI461" THEN <<0, 0, 1000, 1000>>
                   ELSE <<800, 850, 950, 1000>>

\* the size metric of the first tree evaluated on {}: its default mapping
C18_Witness ==
    /\ Evaluated("size_score")
    /\ mcur.ctx = EmptyCtx
    /\ ~mcur.raised
    /\ TierValues(mcur.value) = <<0, 0, 1000, 1000>>

(***************************************************************************)
(* Properties of the serialized record (RecordSpec)                        *)
(***************************************************************************)
Serialized == ndjson # <<>>
KeysOf(items) == [i \in 1..Len(items) |-> items[i].k]

\* C19: the record to_ndjson_dict produces has exactly the 20 fields name,
\* category, net_score, net_score_latency, ramp_up_time, ramp_up_time_latency,
\* bus_factor, bus_factor_latency, performance_claims,
\* performance_claims_latency, license, license_latency, size_score,
\* size_score_latency, dataset_and_code_score, dataset_and_code_score_latency,
\* dataset_quality, dataset_quality_latency, code_quality,
\* code_quality_latency, in this order.
C19_NdjsonFieldOrder ==
    Serialized =>
       KeysOf(ndjson) =
          <<"name", "category", "net_score", "net_score_latency",
            "ramp_up_time", "ramp_up_time_latency", "bus_factor",
            "bus_factor_latency", "performance_claims",
            "performance_claims_latency", "license", "license_latency",
            "size_score", "size_score_latency", "dataset_and_code_score",
            "dataset_and_code_score_latency", "dataset_quality",
            "dataset_quality_latency", "code_quality", "code_quality_latency">>

\* a serialized ModelScore whose items carry its name and its size mapping
C19_Witness ==
    /\ Serialized
    /\ Len(ndjson) = 20
    /\ ndjson[1].v = "org/model"
    /\ ndjson[13].v = model_score.size_score
    /\ Len(model_score.size_score.d) = 4

\* the value of key k in the serialized record
ValueOf(items, k) == LET i == CHOOSE j \in 1..Len(items) : items[j].k = k
                     IN items[i].v
\* a float with at most three decimals
Rounded3(x) == x % 100 = 0

\* C20: in the serialized record every scalar score is rounded to 3 decimal
\* places, every size_score tier value is rounded to 3 decimal places, and every
\* *_latency field is a non-negative integer.
C20_SerializedRounded ==
    Serialized =>
       /\ \A k \in ScalarNames \cup {"net_score"} : Rounded3(ValueOf(ndjson, k))
       /\ LET size == ValueOf(ndjson, "size_score")
          IN \A i \in 1..Len(size.d) : Rounded3(size.d[i].v)
       /\ \A k \in LatencyKeys \cup {"net_score_latency"} :
             ValueOf(ndjson, k) \in Nat

\* the text of a string literal holds a space character
HasSpace(tok) == tok.q = "string" /\ tok.s = "org/my model"
\* the record has been written as a line
Formatted == line # <<>>

\* C21: the line format_ndjson_line produces for a record parses back to a
\* value equal to the record field for field, contains no space character
\* and does not end with a newline.
C21_NdjsonLineRoundTrip ==
    Formatted =>
       /\ json_loads(line) = ndjson
       /\ \A i \in 1..Len(line) : ~HasSpace(line[i])
       /\ line[Len(line)] = Punct("}")

\* the two parts of C21 that hold for every record
C21_RoundTripOnly ==
    Formatted =>
       /\ json_loads(line) = ndjson
       /\ line[Len(line)] = Punct("}")
\* the separators put no space between the tokens of the line
C21_NoSpaceOutsideStrings ==
    Formatted =>
       \A i \in 1..Len(line) : line[i].q = "punct" => line[i].s \in {"{", "}", ",", ":"}

(***************************************************************************)
(* Properties of process_url_list (ListSpec)                               *)
(***************************************************************************)
\* the category of a URL of the list, "ERROR" when classifying it raises
CategoryOf(u) == IF parse_url(u).raised THEN "ERROR" ELSE parse_url(u).category
\* the positions before i whose URL has category cat
Preceding(i, cat) == {j \in 1..(i - 1) : CategoryOf(urls[j]) = cat}
\* the most recent URL of category cat before position i, "" when none
MostRecent(i, cat) ==
    IF Preceding(i, cat) = {} THEN NoLink
    ELSE urls[CHOOSE j \in Preceding(i, cat) : \A k \in Preceding(i, cat) : k <= j]

\* C25: every MODEL URL is scored with dataset_link = the most recent DATASET
\* URL before it and code_link = the most recent CODE URL before it (the
\* empty string when none precedes it), and the shared context holds exactly
\* these links at every point of the loop, also after a model was scored.
C25_ContextFromPrecedingUrls ==
    /\ \A r \in 1..Len(results) :
          /\ results[r].related.dataset_link = MostRecent(results[r].index, "DATASET")
          /\ results[r].related.code_link = MostRecent(results[r].index, "CODE")
    /\ urls # <<>> =>
          /\ context.dataset_link = MostRecent(Len(visited) + 1, "DATASET")
          /\ context.code_link = MostRecent(Len(visited) + 1, "CODE")

\* two datasets, then a model scored with the second of them
C25_Witness ==
    /\ Len(urls) = 3
    /\ urls[1] = DatasetUrl
    /\ urls[2] = DatasetUrl2
    /\ Len(results) = 1
    /\ results[1].index = 3
    /\ results[1].related.dataset_link = DatasetUrl2
    /\ results[1].related.code_link = NoLink
    /\ context.dataset_link = DatasetUrl2

\* the positions passed whose URL is a MODEL URL that score_model returned for
ReturnedAt ==
    {j \in 1..Len(visited) :
        visited[j].category = "MODEL" /\ visited[j].scored = "returned"}

\* C26: results holds one ModelScore per MODEL URL whose scoring did not
\* raise, in input order, and none for any other URL; a URL that raised is
\* skipped and the loop goes on to every later URL.
C26_OneResultPerScoredModel ==
    /\ Len(results) = Cardinality(ReturnedAt)
    /\ \A r \in 1..Len(results) :
          /\ results[r].index \in ReturnedAt
          /\ results[r].url = urls[results[r].index]
          /\ CategoryOf(results[r].url) = "MODEL"
    /\ \A r \in 1..Len(results), t \in 1..Len(results) :
          r < t => results[r].index < results[t].index
    /\ \A j \in 1..Len(visited) :
          /\ visited[j].url = urls[j]
          /\ visited[j].category = CategoryOf(urls[j])
    /\ Len(visited) < Len(urls) => ENABLED ProcessUrl

\* a list whose first URL raises in classify_url, whose second is a MODEL URL
\* that score_model raises for and whose third is a MODEL URL that is scored
C26_Witness ==
    /\ Len(visited) = 3
    /\ visited[1].category = "ERROR"
    /\ visited[2].category = "MODEL" /\ visited[2].scored = "raised"
    /\ visited[3].scored = "returned"
    /\ Len(results) = 1
    /\ results[1].index = 3

(***************************************************************************)
(* Properties of the registry API (ApiSpec)                                *)
(***************************************************************************)
Answered(op) == response # <<>> /\ response.op = op
\* the index entries the stored artifacts call for
EntriesOfStore ==
    {Entry(Key(_artifacts_by_id[i].type, _artifacts_by_id[i].url),
           _artifacts_by_id[i].id) : i \in 1..Len(_artifacts_by_id)}

\* C28: the two indexes agree: _artifact_id_by_type_and_url holds exactly the
\* entry (a.type, a.url) -> a.id for every stored artifact a, and no two stored
\* artifacts have the same (type, url).
C28_IndexesAgree ==
    /\ _artifact_id_by_type_and_url = EntriesOfStore
    /\ \A i \in 1..Len(_artifacts_by_id), j \in 1..Len(_artifacts_by_id) :
          (i # j) =>
             /\ _artifacts_by_id[i].id # _artifacts_by_id[j].id
             /\ Key(_artifacts_by_id[i].type, _artifacts_by_id[i].url)
                   # Key(_artifacts_by_id[j].type, _artifacts_by_id[j].url)

\* two artifacts are stored and an update that moved one of them to another
\* URL was accepted
C28_Witness ==
    /\ Len(_artifacts_by_id) = 2
    /\ Answered("update") /\ response.status = 200
    /\ _artifacts_by_id[1].url = UrlB
    /\ _artifacts_by_id[2].url = UrlB
    /\ _artifacts_by_id[1].type # _artifacts_by_id[2].type
    /\ Cardinality(_artifact_id_by_type_and_url) = 2

\* the request addressed a stored artifact under a type that is not its
\* stored type
WrongTypeAddressed(req) ==
    /\ req.id \in StoredIds(_artifacts_by_id)
    /\ ById(_artifacts_by_id, req.id).type # req.type

\* C29: no request changes the type of a stored artifact, and a PUT, GET or
\* DELETE on /artifacts/{type}/{id} whose type is not the stored type of the
\* artifact is rejected and leaves both indexes as they were.
C29_TypeNeverChanges ==
    [][/\ \A id \in StoredIds(_artifacts_by_id) \cap StoredIds(_artifacts_by_id') :
             ById(_artifacts_by_id', id).type = ById(_artifacts_by_id, id).type
       /\ (response'.op \in {"update", "retrieve", "delete"}
              /\ response'.status # 403
              /\ WrongTypeAddressed(response'.request))
           => /\ response'.status >= 400
              /\ _artifacts_by_id' = _artifacts_by_id
              /\ _artifact_id_by_type_and_url' = _artifact_id_by_type_and_url]_vars

\* GET and DELETE do reject a wrong type and change nothing
C29_RetrieveDeleteReject ==
    [][(response'.op \in {"retrieve", "delete"}
          /\ response'.status # 403
          /\ WrongTypeAddressed(response'.request))
       => /\ response'.status = 404
          /\ _artifacts_by_id' = _artifacts_by_id
          /\ _artifact_id_by_type_and_url' = _artifact_id_by_type_and_url]_vars

\* the credentials of the default administrator
ValidCredentials(req) ==
    /\ req.user = "ece30861defaultadminuser"
    /\ req.password = "correcthorsebatterystaple123"

\* C23: PUT /authenticate with a well-formed body answers 200 with a bearer
\* token string when the credentials are valid, and 401 without a token when
\* they are not.
C23_InvalidCredentialsRejected ==
    (Answered("authenticate") /\ response.request.wellformed) =>
       IF ValidCredentials(response.request)
       THEN response.status = 200 /\ response.body = "bearer test-token"
       ELSE response.status = 401

\* valid credentials do get the token, a malformed body gets 400
C23_ValidCredentialsAccepted ==
    Answered("authenticate") =>
       /\ (response.request.wellformed /\ ValidCredentials(response.request))
             => response.status = 200 /\ response.body = "bearer test-token"
       /\ ~response.request.wellformed => response.status = 400

\* a lineage graph was returned for card data that could be read
LineageAnswered ==
    /\ Answered("lineage")
    /\ response.status = 200
    /\ ~response.request.card.raised
NamedAsBase(name) ==
    \E i \in 1..Len(response.request.card.base_models) :
       response.request.card.base_models[i] = name
NodeIds(graph) == {graph.nodes[i].artifact_id : i \in 1..Len(graph.nodes)}
NodesWithId(graph, id) ==
    {i \in 1..Len(graph.nodes) : graph.nodes[i].artifact_id = id}
HasEdge(graph, e) == \E i \in 1..Len(graph.edges) : graph.edges[i] = e

\* C24 as stated: for every ingested model A whose name the card data of B
\* names as base model, the lineage graph of B has exactly one node with B's
\* id, a node with A's id and the edge A -> B with relationship base_model.
C24_LineageUsesIngestedBase ==
    LineageAnswered =>
       \A i \in 1..Len(_artifacts_by_id) :
          LET A == _artifacts_by_id[i]
              B == response.request.id
          IN (A.type = "model" /\ NamedAsBase(A.name)) =>
                /\ Cardinality(NodesWithId(response.body, B)) = 1
                /\ A.id \in NodeIds(response.body)
                /\ HasEdge(response.body, Edge(A.id, B, "base_model"))

\* the first stored model of this name
FirstModelNamed(name) ==
    LET hits == {i \in 1..Len(_artifacts_by_id) :
                    /\ _artifacts_by_id[i].type = "model"
                    /\ _artifacts_by_id[i].name = name}
    IN _artifacts_by_id[CHOOSE i \in hits : \A j \in hits : i <= j]

\* C24, amended: the graph of B has exactly one node with B's id and, for
\* every ingested model A whose name the card data names as base model, a node
\* and a base_model edge to B for the first stored model of that name (A
\* itself when no other stored model has its name).
C24_LineageUsesFirstIngestedBase ==
    LineageAnswered =>
       /\ Cardinality(NodesWithId(response.body, response.request.id)) = 1
       /\ \A i \in 1..Len(_artifacts_by_id) :
             LET A == _artifacts_by_id[i]
                 B == response.request.id
             IN (A.type = "model" /\ NamedAsBase(A.name)) =>
                   /\ FirstModelNamed(A.name).id \in NodeIds(response.body)
                   /\ HasEdge(response.body,
                              Edge(FirstModelNamed(A.name).id, B, "base_model"))

\* model A (org/model-a) and model B (org/model-b) are ingested and the card
\* data of B names org/model-a: the graph has both ids and the edge A -> B
C24_Witness ==
    /\ LineageAnswered
    /\ Len(_artifacts_by_id) = 2
    /\ _artifacts_by_id[1].type = "model" /\ _artifacts_by_id[1].name = NameA
    /\ _artifacts_by_id[2].type = "model" /\ _artifacts_by_id[2].name = NameB
    /\ response.request.id = _artifacts_by_id[2].id
    /\ response.request.card = Card(<<NameA>>, <<>>)
    /\ NodeIds(response.body) = {_artifacts_by_id[1].id, _artifacts_by_id[2].id}
    /\ HasEdge(response.body,
               Edge(_artifacts_by_id[1].id, _artifacts_by_id[2].id, "base_model"))

(***************************************************************************)
(* Properties of paging (PageSpec)                                         *)
(***************************************************************************)
\* the client is on a walk that started at offset 0 and followed the
\* returned offsets
Walking == listing.status = 200 /\ listing.walk > 0
\* ceil(n / 10), and 1 for the empty list
PagesOf(n) == IF n = 0 THEN 1 ELSE (n + 9) \div 10

\* C30: on a walk from offset 0 that follows the returned offsets, every page
\* has at most 10 items, the pages collected so far are the start of the list
\* in order (nothing repeated, nothing skipped), the returned offset is "0"
\* exactly when the collected pages are the whole list, and that happens at
\* request number ceil(n/10) (request 1 for the empty list).
C30_PaginationCoversList ==
    Walking =>
       /\ Len(listing.page) <= 10
       /\ listing.fetched = SubSeq(ordered, 1, Len(listing.fetched))
       /\ (listing.next = StrOfInt(0)) <=> (Len(listing.fetched) = Len(ordered))
       /\ listing.next # StrOfInt(0) =>
             /\ listing.next = StrOfInt(Len(listing.fetched))
             /\ Len(listing.fetched) = 10 * listing.walk
       /\ listing.next = StrOfInt(0) => listing.walk = PagesOf(Len(ordered))

\* the third request of a walk over a list of 21 items: the last page has
\* one item and the offset "0"
C30_Witness ==
    /\ Walking
    /\ Len(ordered) = 21
    /\ listing.walk = 3
    /\ listing.offset = StrOfInt(20)
    /\ listing.page = <<21>>
    /\ listing.next = StrOfInt(0)
    /\ listing.fetched = ordered

(***************************************************************************)
(* Properties of metric calls on a shared context (PureSpec)               *)
(***************************************************************************)
SameClass(a, b) == a.tree = b.tree /\ a.metric = b.metric

C22_MetricInterface ==
    (calls.last # NoEval /\ ~calls.last.raised) =>
       /\ NameOf(calls.last.tree, calls.last.metric) = calls.last.metric
       /\ calls.last.latency.t = "int"
       /\ calls.last.latency.n >= 0

\* the classes of the second tree and DatasetQualityMetric of CSCI461 do
\* implement the interface
C22_TimedClassesConform ==
    (calls.last # NoEval /\ ~calls.last.raised
        /\ Timed(calls.last.tree, calls.last.metric)) =>
       /\ NameOf(calls.last.tree, calls.last.metric) = calls.last.metric
       /\ calls.last.latency.t = "int"
       /\ calls.last.latency.n >= 0

====
